---- MODULE Spec2Model ----
(***************************************************************************)
(* State-machine model of the BeautiFi IoT firmware core.                  *)
(*                                                                         *)
(* Part I  : the verifier uplink (src/network/verifier_client.py): the     *)
(*           offline buffer (SQLite tables pending_samples and             *)
(*           pending_epochs), the SyncStatus record, the immediate sends   *)
(*           and the background sync loop, one action per POST;            *)
(*           force_sync beside the loop.                                   *)
(* Part II : the durable sample store of the collector                     *)
(*           (src/telemetry/collector.py): one action per commit.          *)
(* Part III: the collection loop and the epoch assembler of the collector  *)
(*           (src/telemetry/collector.py): the tick thread and stop(),     *)
(*           start() after stop(), and one iteration of the loop statement *)
(*           by statement with the callbacks of src/app.py.                *)
(* Part IV : canonical hashing, signing, verification and the Merkle tree  *)
(*           (src/crypto/signing.py) and the device identity               *)
(*           (src/crypto/identity.py).                                     *)
(* Part V  : the issuance calculator (src/tokenomics/issuance.py).         *)
(* Part VI : the remote configuration manager                              *)
(*           (src/ota/config_manager.py).                                  *)
(* Part VII: the fan targets and the command poller (src/app.py).          *)
(* Part VIII: the anomaly detector (src/security/anomaly.py) and the       *)
(*           evidence pack (src/evidence/pack_builder.py).                 *)
(*                                                                         *)
(* A sample payload is the number of the send_sample call that handed it   *)
(* over; an epoch payload is the pair (epoch_id, version), version being   *)
(* the count of send_epoch calls for that epoch_id so far.                 *)
(***************************************************************************)
EXTENDS Integers, Sequences, FiniteSets, TLC

VARIABLES
    \* ---- verifier uplink (VerifierClient) ----
    pending_samples,    \* table pending_samples, rows [id, payload] by id ASC
    pending_epochs,     \* table pending_epochs, rows [id, epoch_id, payload] by id ASC
    verifications,      \* table verifications: epoch_ids in insertion order
    sample_seq,         \* AUTOINCREMENT counter of pending_samples
    epoch_seq,          \* AUTOINCREMENT counter of pending_epochs
    status,             \* self.status (SyncStatus)
    running,            \* self._running
    sync,               \* per sync worker: position inside _sync_pending
    \* ---- environment of the uplink ----
    net,                \* "down" | "flaky" | "up": what the verifier answers
    accepted_samples,   \* samples the verifier answered 2xx, in order of first answer
    accepted_epochs,    \* epochs (epoch_id, version) the verifier answered 2xx
    samples_handed,     \* number of send_sample calls so far
    epoch_ver,          \* per epoch_id: number of send_epoch calls so far
    op,                 \* the last completed operation of the uplink and what it saw
    \* ---- durable sample store (TelemetryCollector) ----
    samples,            \* table samples, row ids by id ASC (committed state)
    store_seq,          \* AUTOINCREMENT counter of samples
    store_pc,           \* writer position inside _store_sample
    recent,             \* result of the last get_recent_samples call
    \* ---- collection loop and epoch assembler (TelemetryCollector) ----
    col_running,            \* self._running of the collector
    tick,                   \* the collection thread: position and sample in hand
    stopper,                \* the thread inside TelemetryCollector.stop()
    ticks,                  \* samples read so far (ticks begun)
    enable_signing,         \* self.enable_signing
    _current_epoch_start,   \* timestamp of the first sample, NoTime for None
    _current_epoch_samples, \* samples appended to the open epoch
    epochs,                 \* table epochs: documents by id ASC, epoch_id UNIQUE
    sealed,                 \* every epoch _finalize_epoch produced: [samples, doc]
                            \* and its evidence pack
    \* ---- signing, verification, Merkle tree, device identity ----
    subject,                \* the computation under study and its input
    outcome,                \* what it returned
    key_dir,                \* the key directory on disk
    identity,               \* the DeviceIdentity constructed, NoIdentity before
    \* ---- issuance calculator (IssuanceCalculator) ----
    _team_tokens_issued,    \* self._team_tokens_issued
    team_paid,              \* sum of to_team over the results returned so far
    issuance,               \* the last EpochIssuance returned (its split)
    issuance_calls,         \* calculate_epoch_issuance calls so far
    \* ---- remote configuration (ConfigManager) ----
    _config,                \* self._config
    _history,               \* self._history: the ConfigChange records in memory
    history_file,           \* config_history.json
    _trusted_public_key_hex,\* the trusted operator key, NoKey for None
    applied,                \* the accepted value changes so far, and how many
                            \* of them preceded the construction of the manager
    config_op,              \* the last call of the manager and what it did
    \* ---- fan targets and the command poller (app.py) ----
    current_speeds,         \* current_speeds: PWM target (percent) of every fan
    RUNNING_ON_PI,          \* whether RPi.GPIO was imported and drives the pins
    fan_op,                 \* the last polled command and its acknowledgement
    \* ---- anomaly detector (AnomalyDetector) ----
    _baselines,             \* self._baselines: per tracked field, its count
    _recent_values,         \* self._recent_values: per tracked field, its last values
    _recent_hashes,         \* self._recent_hashes: the window of payload hashes
    _last_timestamp,        \* self._last_timestamp, NoTime for None
    fed_samples,            \* every sample check_sample was called with, in order
    anomalies,              \* the reports the last check_sample call returned
    \* ---- the collection loop around the epoch assembler ----
    sensors,                \* "sound" | "faulty": what the sensors may read
    raw_json,               \* table samples, column raw_json, by id ASC
    delivered,              \* the samples handed to the callbacks, in order
    \* ---- one iteration of the collection loop, statement by statement ----
    orch,                   \* the statement the loop thread is at, and its locals
    steps,                  \* the steps of the iteration under way, in order
    \* ---- start() after stop() ----
    stale,                  \* the other loop thread alive, pc "none" if there is none
    restarts                \* the number of start() calls after a stop()

uplinkVars == <<pending_samples, pending_epochs, verifications, sample_seq, epoch_seq,
                status, running, sync, net, accepted_samples, accepted_epochs,
                samples_handed, epoch_ver, op>>
storeVars == <<samples, store_seq, store_pc, recent>>
collectorVars == <<col_running, tick, stopper, ticks, enable_signing,
                   _current_epoch_start, _current_epoch_samples, epochs, sealed>>
cryptoVars == <<subject, outcome, key_dir, identity>>
issuanceVars == <<_team_tokens_issued, team_paid, issuance, issuance_calls>>
configVars == <<_config, _history, history_file, _trusted_public_key_hex, applied,
                config_op>>
fanVars == <<current_speeds, RUNNING_ON_PI, fan_op>>
detectorVars == <<_baselines, _recent_values, _recent_hashes, _last_timestamp, fed_samples, anomalies>>
loopVars == <<sensors, raw_json, delivered, orch, steps, stale, restarts>>
serviceVars == <<configVars, fanVars, detectorVars, loopVars>>
pipelineVars == <<collectorVars, cryptoVars, issuanceVars, serviceVars>>
\* everything but the services
coreVars == <<uplinkVars, storeVars, collectorVars, cryptoVars, issuanceVars>>
nonConfigVars == <<coreVars, fanVars, detectorVars, loopVars>>
nonFanVars == <<coreVars, configVars, detectorVars, loopVars>>
nonDetectorVars == <<coreVars, configVars, fanVars, loopVars>>
vars == <<uplinkVars, storeVars, pipelineVars>>

(***************************************************************************)
(* Bounds of the exploration.                                              *)
(***************************************************************************)
\* send_sample / send_epoch calls explored against a verifier that is down or up
MaxSamples == 4
MaxEpochSends == 3
\* send_sample / send_epoch calls explored against a verifier that answers anything
MaxFlakySamples == 2
MaxFlakyEpochSends == 2
\* _store_sample calls explored
MaxStored == 6

EpochIds == 1..MaxEpochSends

(***************************************************************************)
(* Program constants.  The buffer caps, batch sizes and the backoff        *)
(* ceiling are scaled down (10000, 100, 300, 50, 10 and 1000 in the        *)
(* source) so that overflow, multi-cycle drains and the ceiling are        *)
(* reached within the bounds.                                              *)
(***************************************************************************)
MAX_BUFFERED_SAMPLES == 3
MAX_BUFFERED_EPOCHS == 2
INITIAL_BACKOFF_SECONDS == 1
MAX_BACKOFF_SECONDS == 8
BACKOFF_MULTIPLIER == 2
SYNC_BATCH_SAMPLES == 2
SYNC_BATCH_EPOCHS == 2
TELEMETRY_BUFFER_SIZE == 3

(***************************************************************************)
(* Helpers.                                                                *)
(***************************************************************************)
Min(a, b) == IF a <= b THEN a ELSE b

RECURSIVE Pow(_, _)
Pow(b, e) == IF e = 0 THEN 1 ELSE b * Pow(b, e - 1)

\* SELECT ... ORDER BY id ASC LIMIT n
Limit(rows, n) == SubSeq(rows, 1, Min(n, Len(rows)))

\* DELETE ... WHERE id IN (SELECT id ... ORDER BY id ASC LIMIT n)
DropOldest(rows, n) == SubSeq(rows, Min(n, Len(rows)) + 1, Len(rows))

\* DELETE ... WHERE id IN ids
DeleteIds(rows, ids) == SelectSeq(rows, LAMBDA r : r.id \notin ids)

Is2xx(code) == code >= 200 /\ code <= 299

InSeq(x, s) == \E i \in 1..Len(s) : s[i] = x

\* The verifier's log: an item enters it with the first 2xx answer it gets.
NoteAccepted(log, item, resp) ==
    IF Is2xx(resp.code) /\ ~InSeq(item, log) THEN Append(log, item) ELSE log

\* What the verifier may answer to a sample POST.  Code 0 stands for no
\* response at all (requests ConnectionError or Timeout); 201 is handled
\* like 200 by the client and is left out of the answers explored.
SampleResponses ==
    CASE net = "down" -> {[code |-> 0, body |-> "none"]}
      [] net = "up" -> {[code |-> 200, body |-> "result"]}
      [] OTHER -> {[code |-> c, body |-> "none"] : c \in {0, 200, 204, 500}}

\* What the verifier may answer to an epoch POST.  body: "result" is a JSON
\* object carrying status and epoch_id, "empty" the JSON object {}, "invalid"
\* a body that is not JSON, "none" no body.
EpochResponses ==
    CASE net = "down" -> {[code |-> 0, body |-> "none"]}
      [] net = "up" -> {[code |-> 200, body |-> "result"]}
      [] OTHER -> {[code |-> 0, body |-> "none"], [code |-> 500, body |-> "none"],
                   [code |-> 204, body |-> "invalid"]}
                  \cup {[code |-> 200, body |-> b] : b \in {"result", "empty", "invalid"}}

\* What the reachability probe (GET .../status == 200) may return.
check_connection ==
    CASE net = "down" -> {FALSE}
      [] net = "up" -> {TRUE}
      [] OTHER -> {TRUE, FALSE}

SampleBound == IF net = "flaky" THEN MaxFlakySamples ELSE MaxSamples
EpochBound == IF net = "flaky" THEN MaxFlakyEpochSends ELSE MaxEpochSends

(***************************************************************************)
(* VerifierClient: HTTP operations and status.                             *)
(***************************************************************************)
StatusInit ==
    [connection_state |-> "disconnected",
     samples_pending |-> 0, epochs_pending |-> 0,
     samples_sent_total |-> 0, epochs_sent_total |-> 0,
     retry_count |-> 0,
     next_retry |-> 0]      \* the delay to next_retry; 0: None, or already past

\* _post_sample: ok is the return value, err whether _record_error ran.
_post_sample_only_201(resp) ==
    [ok |-> resp.code = 201, err |-> resp.code # 201]

_post_sample(resp) ==
    IF resp.code = 200 \/ resp.code = 201
    THEN [ok |-> TRUE, err |-> FALSE]
    ELSE [ok |-> FALSE, err |-> TRUE]

\* _post_epoch: ok is the truth value of the returned response (the callers
\* test "if response:"), err whether _record_error ran.  response.json() raises
\* on a body that is not JSON (caught by "except Exception") and returns the
\* falsy {} on an empty object.
_post_epoch(resp) ==
    IF resp.code = 200 \/ resp.code = 201
    THEN IF resp.body = "invalid"
         THEN [ok |-> FALSE, err |-> TRUE]
         ELSE [ok |-> resp.body = "result", err |-> FALSE]
    ELSE [ok |-> FALSE, err |-> TRUE]

_record_error(st) ==
    [st EXCEPT !.connection_state = "error",
               !.retry_count = @ + 1,
               !.next_retry = Min(INITIAL_BACKOFF_SECONDS
                                    * Pow(BACKOFF_MULTIPLIER, st.retry_count + 1),
                                  MAX_BACKOFF_SECONDS)]

_update_pending_counts(st, srows, erows) ==
    [st EXCEPT !.samples_pending = Len(srows), !.epochs_pending = Len(erows)]

(***************************************************************************)
(* VerifierClient: buffering operations (the rows after the call).         *)
(***************************************************************************)
_buffer_sample_no_evict(rows, id, payload) ==
    Append(rows, [id |-> id, payload |-> payload])

_buffer_sample(rows, id, payload) ==
    LET count == Len(rows)
        kept == IF count >= MAX_BUFFERED_SAMPLES
                THEN DropOldest(rows, count - MAX_BUFFERED_SAMPLES + 1)
                ELSE rows
    IN Append(kept, [id |-> id, payload |-> payload])

_buffer_epoch_plain_insert(rows, id, epoch_id, payload) ==
    Append(rows, [id |-> id, epoch_id |-> epoch_id, payload |-> payload])

\* INSERT OR REPLACE on the UNIQUE column epoch_id: the row of the same
\* epoch_id is deleted and the new row gets a fresh AUTOINCREMENT id.
_buffer_epoch(rows, id, epoch_id, payload) ==
    Append(SelectSeq(rows, LAMBDA r : r.epoch_id # epoch_id),
           [id |-> id, epoch_id |-> epoch_id, payload |-> payload])

(***************************************************************************)
(* The record of the last completed uplink operation.                      *)
(*   item          : <<s, 0>> for sample s, <<epoch_id, version>> for an   *)
(*                   epoch, <<0, 0>> for none                              *)
(*   posted        : the operation made a POST                             *)
(*   pre           : connection_state when send_sample / send_epoch began  *)
(*   after_stop    : _running was already False when the step before this *)
(*                   POST ended (the POST was not in flight at stop())     *)
(*   after_failure : a POST of the same sync cycle had failed before       *)
(***************************************************************************)
OpRec(name, item, resp, posted, pre, after_stop, after_failure) ==
    [name |-> name, item |-> item, code |-> resp.code,
     posted |-> posted, pre |-> pre,
     after_stop |-> after_stop, after_failure |-> after_failure]

NoResp == [code |-> 0, body |-> "none"]

\* Any operation no property looks at (start, stop, the probe, the deletes).
OtherOp == OpRec("other", <<0, 0>>, NoResp, FALSE, "none", FALSE, FALSE)

\* A worker outside _sync_pending.  failed: a POST of this cycle has failed;
\* stopped: _running was already False when the worker's previous step ended.
\* the threads that may be inside _sync_pending: the loop thread and a caller
\* of force_sync
SyncWorkers == {"loop", "force"}
SyncIdle == [pc |-> "idle", batch |-> <<>>, i |-> 1, synced |-> {},
             broke |-> FALSE, failed |-> FALSE, stopped |-> FALSE]

(***************************************************************************)
(* send_sample / send_epoch.  attempt: whether the immediate POST is made. *)
(***************************************************************************)
SendSampleStep(attempt) ==
    /\ samples_handed < SampleBound
    /\ \E resp \in (IF attempt THEN SampleResponses ELSE {NoResp}) :
         LET s == samples_handed + 1
             r == IF attempt THEN _post_sample(resp) ELSE [ok |-> FALSE, err |-> FALSE]
             st1 == IF r.err THEN _record_error(status) ELSE status
         IN /\ samples_handed' = s
            /\ accepted_samples' = NoteAccepted(accepted_samples, s, resp)
            /\ IF r.ok
               THEN /\ status' = [st1 EXCEPT !.samples_sent_total = @ + 1,
                                             !.connection_state = "connected",
                                             !.retry_count = 0]
                    /\ UNCHANGED <<pending_samples, sample_seq>>
               ELSE /\ pending_samples' = _buffer_sample(pending_samples, sample_seq + 1, s)
                    /\ sample_seq' = sample_seq + 1
                    /\ status' = [st1 EXCEPT !.samples_pending = @ + 1]
            /\ op' = OpRec("send_sample", <<s, 0>>, resp, attempt,
                           status.connection_state, FALSE, FALSE)
    /\ UNCHANGED <<pending_epochs, verifications, epoch_seq, running, sync, net,
                   accepted_epochs, epoch_ver, storeVars, pipelineVars>>

send_sample_if_connected ==
    SendSampleStep(status.connection_state = "connected")

send_sample ==
    SendSampleStep(TRUE)

EpochsHanded == LET RECURSIVE Sum(_)
                    Sum(n) == IF n = 0 THEN 0 ELSE epoch_ver[n] + Sum(n - 1)
                IN Sum(MaxEpochSends)

\* The epoch_ids a send_epoch call may carry: one handed over before, or the
\* next new one (epoch_ids are interchangeable, so new ones come in order).
NextEpochIds == 1..Min(EpochBound, Cardinality({e \in EpochIds : epoch_ver[e] > 0}) + 1)

SendEpochStep(attempt) ==
    /\ EpochsHanded < EpochBound
    /\ \E e \in NextEpochIds :
       \E resp \in (IF attempt THEN EpochResponses ELSE {NoResp}) :
         LET item == <<e, epoch_ver[e] + 1>>
             r == IF attempt THEN _post_epoch(resp) ELSE [ok |-> FALSE, err |-> FALSE]
             st1 == IF r.err THEN _record_error(status) ELSE status
         IN /\ epoch_ver' = [epoch_ver EXCEPT ![e] = @ + 1]
            /\ accepted_epochs' = NoteAccepted(accepted_epochs, item, resp)
            /\ IF r.ok
               THEN /\ status' = [st1 EXCEPT !.epochs_sent_total = @ + 1,
                                             !.connection_state = "connected",
                                             !.retry_count = 0]
                    /\ verifications' = Append(verifications, e)
                    /\ UNCHANGED <<pending_epochs, epoch_seq>>
               ELSE /\ pending_epochs' = _buffer_epoch(pending_epochs, epoch_seq + 1, e, item)
                    /\ epoch_seq' = epoch_seq + 1
                    /\ status' = [st1 EXCEPT !.epochs_pending = @ + 1]
                    /\ UNCHANGED verifications
            /\ op' = OpRec("send_epoch", item, resp, attempt,
                           status.connection_state, FALSE, FALSE)
    /\ UNCHANGED <<pending_samples, sample_seq, running, sync, net,
                   accepted_samples, samples_handed, storeVars, pipelineVars>>

send_epoch ==
    SendEpochStep(TRUE)

get_status ==
    /\ status' = _update_pending_counts(status, pending_samples, pending_epochs)
    /\ op' = OpRec("get_status", <<0, 0>>, NoResp, FALSE, "none", FALSE, FALSE)
    /\ UNCHANGED <<pending_samples, pending_epochs, verifications, sample_seq, epoch_seq,
                   running, sync, net, accepted_samples, accepted_epochs,
                   samples_handed, epoch_ver, storeVars, pipelineVars>>

(***************************************************************************)
(* Background sync.  A worker w runs _sync_pending one POST at a time:      *)
(*   pc = "samples": inside the for loop of _sync_pending_samples           *)
(*   pc = "epochs" : inside the for loop of _sync_pending_epochs            *)
(*   pc = "idle"   : outside _sync_pending (the loop thread sleeps)         *)
(***************************************************************************)
\* start() spawns the loop thread.  One loop thread is explored: start() is
\* taken once the previous thread is outside _sync_pending.
start ==
    /\ ~running
    /\ sync["loop"].pc = "idle"
    /\ running' = TRUE
    /\ op' = OtherOp
    /\ UNCHANGED <<pending_samples, pending_epochs, verifications, sample_seq, epoch_seq,
                   status, sync, net, accepted_samples, accepted_epochs,
                   samples_handed, epoch_ver, storeVars, pipelineVars>>

stop ==
    /\ running
    /\ running' = FALSE
    /\ op' = OtherOp
    /\ UNCHANGED <<pending_samples, pending_epochs, verifications, sample_seq, epoch_seq,
                   status, sync, net, accepted_samples, accepted_epochs,
                   samples_handed, epoch_ver, storeVars, pipelineVars>>

\* The entry of _sync_pending_epochs: fetch the batch; "if not rows: return".
EnterEpochs(w, failed) ==
    LET rows == Limit(pending_epochs, SYNC_BATCH_EPOCHS)
    IN IF rows = <<>>
       THEN [sync EXCEPT ![w] = SyncIdle]
       ELSE [sync EXCEPT ![w] = [pc |-> "epochs", batch |-> rows, i |-> 1,
                                 synced |-> {}, broke |-> FALSE, failed |-> failed,
                                 stopped |-> ~running]]

\* The entry of _sync_pending_samples: fetch the batch; "if not rows: return"
\* goes on to _sync_pending_epochs.
EnterSamples(w) ==
    LET rows == Limit(pending_samples, SYNC_BATCH_SAMPLES)
    IN IF rows = <<>>
       THEN EnterEpochs(w, FALSE)
       ELSE [sync EXCEPT ![w] = [pc |-> "samples", batch |-> rows, i |-> 1,
                                 synced |-> {}, broke |-> FALSE, failed |-> FALSE,
                                 stopped |-> ~running]]

\* _sync_pending up to its first POST: the reachability probe.
_sync_pending(w) ==
    /\ sync[w].pc = "idle"
    /\ \E reachable \in check_connection :
         IF ~reachable
         THEN /\ status' = [status EXCEPT !.connection_state = "disconnected"]
              /\ UNCHANGED sync
         ELSE /\ status' = [status EXCEPT !.connection_state = "connected",
                                          !.retry_count = 0]
              /\ sync' = EnterSamples(w)
    /\ op' = OtherOp
    /\ UNCHANGED <<pending_samples, pending_epochs, verifications, sample_seq, epoch_seq,
                   running, net, accepted_samples, accepted_epochs,
                   samples_handed, epoch_ver, storeVars, pipelineVars>>

\* One iteration of _sync_loop that gets past the next_retry check.
_sync_loop ==
    /\ running
    /\ status.next_retry = 0
    /\ _sync_pending("loop")

\* One iteration of the for loop of _sync_pending_samples.
sync_post_sample(w) ==
    /\ sync[w].pc = "samples"
    /\ ~sync[w].broke
    /\ sync[w].i <= Len(sync[w].batch)
    /\ \E resp \in SampleResponses :
         LET row == sync[w].batch[sync[w].i]
             r == _post_sample(resp)
             st1 == IF r.err THEN _record_error(status) ELSE status
         IN /\ accepted_samples' = NoteAccepted(accepted_samples, row.payload, resp)
            /\ IF r.ok
               THEN /\ sync' = [sync EXCEPT ![w].synced = @ \cup {row.id}, ![w].i = @ + 1,
                                                 ![w].stopped = ~running]
                    /\ status' = [st1 EXCEPT !.samples_sent_total = @ + 1]
               ELSE /\ sync' = [sync EXCEPT ![w].broke = TRUE, ![w].failed = TRUE,
                                                 ![w].stopped = ~running]
                    /\ status' = st1
            /\ op' = OpRec("sync_post_sample", <<row.payload, 0>>, resp, TRUE,
                           "none", sync[w].stopped, sync[w].failed)
    /\ UNCHANGED <<pending_samples, pending_epochs, verifications, sample_seq, epoch_seq,
                   running, net, accepted_epochs, samples_handed, epoch_ver, storeVars, pipelineVars>>

\* The end of _sync_pending_samples (delete the synced rows, refresh the
\* counts) and, back in _sync_pending, the call of _sync_pending_epochs.
sync_finish_samples(w) ==
    /\ sync[w].pc = "samples"
    /\ sync[w].broke \/ sync[w].i > Len(sync[w].batch)
    /\ pending_samples' = DeleteIds(pending_samples, sync[w].synced)
    /\ status' = _update_pending_counts(status, pending_samples', pending_epochs)
    /\ sync' = EnterEpochs(w, sync[w].failed)
    /\ op' = OtherOp
    /\ UNCHANGED <<pending_epochs, verifications, sample_seq, epoch_seq,
                   running, net, accepted_samples, accepted_epochs,
                   samples_handed, epoch_ver, storeVars, pipelineVars>>

\* One iteration of the for loop of _sync_pending_epochs.
sync_post_epoch(w) ==
    /\ sync[w].pc = "epochs"
    /\ ~sync[w].broke
    /\ sync[w].i <= Len(sync[w].batch)
    /\ \E resp \in EpochResponses :
         LET row == sync[w].batch[sync[w].i]
             r == _post_epoch(resp)
             st1 == IF r.err THEN _record_error(status) ELSE status
         IN /\ accepted_epochs' = NoteAccepted(accepted_epochs, row.payload, resp)
            /\ IF r.ok
               THEN /\ sync' = [sync EXCEPT ![w].synced = @ \cup {row.id}, ![w].i = @ + 1,
                                                 ![w].stopped = ~running]
                    /\ verifications' = Append(verifications, row.epoch_id)
                    /\ status' = [st1 EXCEPT !.epochs_sent_total = @ + 1]
               ELSE /\ sync' = [sync EXCEPT ![w].broke = TRUE, ![w].failed = TRUE,
                                                 ![w].stopped = ~running]
                    /\ status' = st1
                    /\ UNCHANGED verifications
            /\ op' = OpRec("sync_post_epoch", row.payload, resp, TRUE,
                           "none", sync[w].stopped, sync[w].failed)
    /\ UNCHANGED <<pending_samples, pending_epochs, sample_seq, epoch_seq,
                   running, net, accepted_samples, samples_handed, epoch_ver, storeVars, pipelineVars>>

\* The end of _sync_pending_epochs: delete the synced rows, refresh the counts.
sync_finish_epochs(w) ==
    /\ sync[w].pc = "epochs"
    /\ sync[w].broke \/ sync[w].i > Len(sync[w].batch)
    /\ pending_epochs' = DeleteIds(pending_epochs, sync[w].synced)
    /\ status' = _update_pending_counts(status, pending_samples, pending_epochs')
    /\ sync' = [sync EXCEPT ![w] = SyncIdle]
    /\ op' = OtherOp
    /\ UNCHANGED <<pending_samples, verifications, sample_seq, epoch_seq,
                   running, net, accepted_samples, accepted_epochs,
                   samples_handed, epoch_ver, storeVars, pipelineVars>>

_sync_pending_samples ==
    sync_post_sample("loop") \/ sync_finish_samples("loop")

_sync_pending_epochs ==
    sync_post_epoch("loop") \/ sync_finish_epochs("loop")

\* force_sync: clear the backoff, then _sync_pending on the caller's thread,
\* up to its first POST
force_sync ==
    /\ sync["force"].pc = "idle"
    /\ \E reachable \in check_connection :
         LET cleared == [status EXCEPT !.next_retry = 0, !.retry_count = 0]
         IN  IF ~reachable
             THEN /\ status' = [cleared EXCEPT !.connection_state = "disconnected"]
                  /\ UNCHANGED sync
             ELSE /\ status' = [cleared EXCEPT !.connection_state = "connected"]
                  /\ sync' = EnterSamples("force")
    /\ op' = OtherOp
    /\ UNCHANGED <<pending_samples, pending_epochs, verifications, sample_seq, epoch_seq,
                   running, net, accepted_samples, accepted_epochs,
                   samples_handed, epoch_ver, storeVars, pipelineVars>>

\* _sync_pending_samples and _sync_pending_epochs on the thread of force_sync
force_sync_samples ==
    sync_post_sample("force") \/ sync_finish_samples("force")

force_sync_epochs ==
    sync_post_epoch("force") \/ sync_finish_epochs("force")

\* Wall-clock time passes until datetime.utcnow() reaches next_retry (the
\* loop only tests whether next_retry is still ahead, so the time in between
\* is one step).
TimePasses ==
    /\ status.next_retry > 0
    /\ status' = [status EXCEPT !.next_retry = 0]
    /\ UNCHANGED <<pending_samples, pending_epochs, verifications, sample_seq, epoch_seq,
                   running, sync, net, accepted_samples, accepted_epochs,
                   samples_handed, epoch_ver, op, storeVars, pipelineVars>>

\* The verifier becomes reachable, for good.
Recover ==
    /\ net = "down"
    /\ net' = "up"
    /\ UNCHANGED <<pending_samples, pending_epochs, verifications, sample_seq, epoch_seq,
                   status, running, sync, accepted_samples, accepted_epochs,
                   samples_handed, epoch_ver, op, storeVars, pipelineVars>>

(***************************************************************************)
(* Part II.  TelemetryCollector: the durable sample store.  Every state of  *)
(* samples is a committed state of the table, the one a connection of       *)
(* another thread reads.                                                    *)
(***************************************************************************)
\* _store_sample up to its first conn.commit(): the INSERT.
store_insert ==
    /\ store_pc = "idle"
    /\ store_seq < MaxStored
    /\ samples' = Append(samples, store_seq + 1)
    /\ store_seq' = store_seq + 1
    /\ store_pc' = "inserted"
    /\ UNCHANGED <<recent, uplinkVars, pipelineVars>>

\* The rows left by the cleanup of _store_sample.
CleanupRows(rows) ==
    LET count == Len(rows)
    IN IF count > TELEMETRY_BUFFER_SIZE
       THEN DropOldest(rows, count - TELEMETRY_BUFFER_SIZE)
       ELSE rows

\* _store_sample from the first commit to its end: count, delete the oldest
\* rows over TELEMETRY_BUFFER_SIZE, commit.
store_cleanup ==
    /\ store_pc = "inserted"
    /\ samples' = CleanupRows(samples)
    /\ store_pc' = "idle"
    /\ UNCHANGED <<store_seq, recent, uplinkVars, pipelineVars>>

_store_sample ==
    store_insert \/ store_cleanup

\* get_recent_samples(limit) on a reader thread: ORDER BY id DESC LIMIT ?,
\* returned in insertion order.
get_recent_samples ==
    /\ \E limit \in 1..(TELEMETRY_BUFFER_SIZE + 2) :
         recent' = SubSeq(samples, Len(samples) - Min(limit, Len(samples)) + 1, Len(samples))
    /\ UNCHANGED <<samples, store_seq, store_pc, uplinkVars, pipelineVars>>

(***************************************************************************)
(* Part IV: canonical hashing, signing, verification, Merkle tree.         *)
(*                                                                         *)
(* A Python dict is a sequence of <<key, value>> pairs in insertion order  *)
(* with unique keys.  A byte string is a sequence of blocks; a block is    *)
(* <<"json", pairs>> (a canonical JSON text), <<"raw", n>> (opaque input   *)
(* bytes) or <<"sha256", bytes>> (the 32-byte digest of bytes).  SHA-256   *)
(* is collision free and Ed25519 unforgeable: a digest is the term of its  *)
(* input and a signature names the private key and the data it signed.     *)
(***************************************************************************)
Keys(d) == {d[i][1] : i \in DOMAIN d}
Has(d, k) == k \in Keys(d)
Get(d, k) == d[CHOOSE i \in DOMAIN d : d[i][1] = k][2]
\* d[k] = v
Put(d, k, v) ==
    IF Has(d, k)
    THEN [i \in DOMAIN d |-> IF d[i][1] = k THEN <<k, v>> ELSE d[i]]
    ELSE Append(d, <<k, v>>)
\* {k: v for k, v in d.items() if k not in dropped}
Strip(d, dropped) == SelectSeq(d, LAMBDA kv : kv[1] \notin dropped)

\* The keys that occur in samples and epochs, in code point order ('_' sorts
\* before the lower-case letters): the order json.dumps(sort_keys=True) emits.
KeyOrder ==
    <<"_anomalies", "_signing", "_version", "anomaly_flags", "device_id",
      "enable_verifier_sync", "epoch_id", "fan_cfm", "fan_power_w", "fan_watts", "issuance",
      "leaf_hashes", "merkle_root", "sample_count", "sample_interval_seconds", "seq",
      "summary", "timestamp", "unknown_key">>
\* k.startswith('_signing') and k.startswith('_') over these keys
SigningKeys == {"_signing"}
UnderscoreKeys == {"_anomalies", "_signing", "_version"}

canonicalize_json(data) ==
    LET present == SelectSeq(KeyOrder, LAMBDA k : Has(data, k))
    IN  << <<"json", [i \in DOMAIN present |-> <<present[i], Get(data, present[i])>>]>> >>

hash_data(data) == << <<"sha256", data>> >>
Hex(bytes) == <<"hex", bytes>>
FromHex(str) == str[2]
hash_hex(data) == Hex(hash_data(data))
\* f"ed25519:{x}" and the removal of that prefix by the verifiers
Ed25519Prefixed(x) == <<"ed25519:", x>>
RemovePrefix(x) == IF x[1] = "ed25519:" THEN x[2] ELSE x

\* Device identities: an Ed25519 key pair and the device_id it goes by.
KeyPairs == {"kA", "kB"}
public_key_hex(id) == Hex(<< <<"raw", id.key>> >>)
\* DeviceIdentity.sign / sign_hex: an Ed25519 signature by the private key
sign(id, data) == << <<"ed25519sig", id.key, data>> >>
sign_hex(id, data) == Hex(sign(id, data))
\* DeviceIdentity.verify: Ed25519 verification under self._public_key
verify(id, data, signature) ==
    /\ Len(signature) = 1
    /\ signature[1][1] = "ed25519sig"
    /\ signature[1][2] = id.key
    /\ signature[1][3] = data

NoSignature == "No signature present"
HashMismatch == "Payload hash mismatch - data may have been tampered"
EpochHashMismatch == "Epoch hash mismatch - data may have been tampered"
SignatureInvalid == "Signature invalid"
SignatureValid == "Signature valid"
EpochValid == "Epoch signature and integrity valid"

sign_payload(payload, id, now) ==
    LET stripped == Strip(payload, SigningKeys)
        payload_copy == IF Has(stripped, "timestamp") THEN stripped
                        ELSE Put(stripped, "timestamp", now)
        canonical == canonicalize_json(payload_copy)
    IN  Put(payload_copy, "_signing",
            [device_id |-> id.device_id,
             public_key |-> Ed25519Prefixed(public_key_hex(id)),
             timestamp |-> now,
             payload_hash |-> hash_hex(canonical),
             signature |-> Ed25519Prefixed(sign_hex(id, hash_data(canonical)))])

\* verify_signature without the comparison of the recomputed hash
verify_signature_no_hash_check(payload, id) ==
    IF ~Has(payload, "_signing") THEN [ok |-> FALSE, msg |-> NoSignature]
    ELSE LET signing_info == Get(payload, "_signing")
             canonical == canonicalize_json(Strip(payload, SigningKeys))
         IN  IF verify(id, hash_data(canonical),
                       FromHex(RemovePrefix(signing_info.signature)))
             THEN [ok |-> TRUE, msg |-> SignatureValid]
             ELSE [ok |-> FALSE, msg |-> SignatureInvalid]

verify_signature(payload, id) ==
    IF ~Has(payload, "_signing") THEN [ok |-> FALSE, msg |-> NoSignature]
    ELSE LET signing_info == Get(payload, "_signing")
             canonical == canonicalize_json(Strip(payload, SigningKeys))
         IN  IF hash_hex(canonical) # signing_info.payload_hash
             THEN [ok |-> FALSE, msg |-> HashMismatch]
             ELSE IF verify(id, hash_data(canonical),
                       FromHex(RemovePrefix(signing_info.signature)))
                  THEN [ok |-> TRUE, msg |-> SignatureValid]
                  ELSE [ok |-> FALSE, msg |-> SignatureInvalid]

\* The for loop of create_merkle_root over one level, from index i on
\* (1-based): the last node of an odd level is promoted unpaired.
RECURSIVE PairLevel_no_duplication(_, _)
PairLevel_no_duplication(current_level, i) ==
    IF i > Len(current_level) THEN <<>>
    ELSE IF i + 1 <= Len(current_level)
         THEN <<hash_data(current_level[i] \o current_level[i + 1])>>
              \o PairLevel_no_duplication(current_level, i + 2)
         ELSE <<current_level[i]>>

\* The for loop of create_merkle_root over one level, from index i on (1-based)
RECURSIVE PairLevel(_, _)
PairLevel(current_level, i) ==
    IF i > Len(current_level) THEN <<>>
    ELSE LET left == current_level[i]
             right == IF i + 1 <= Len(current_level) THEN current_level[i + 1] ELSE left
         IN  <<hash_data(left \o right)>> \o PairLevel(current_level, i + 2)

\* The while loop of create_merkle_root
RECURSIVE BuildTree(_)
BuildTree(current_level) ==
    IF Len(current_level) > 1 THEN BuildTree(PairLevel(current_level, 1))
    ELSE current_level

create_merkle_root(items) ==
    IF items = <<>> THEN [root |-> hash_hex(<<>>), leaf_hashes |-> <<>>]
    ELSE LET leaves == [i \in DOMAIN items |-> hash_data(items[i])]
         IN  [root |-> Hex(BuildTree(leaves)[1]),
              leaf_hashes |-> [i \in DOMAIN leaves |-> Hex(leaves[i])]]

create_merkle_root_from_samples(sample_list) ==
    create_merkle_root([i \in DOMAIN sample_list |->
                           canonicalize_json(Strip(sample_list[i], UnderscoreKeys))])

\* {**epoch_data, 'merkle_root': ..., 'sample_count': ..., 'leaf_hashes': ...}
EpochDoc(epoch_data, sample_list) ==
    LET tree == create_merkle_root_from_samples(sample_list)
    IN  Put(Put(Put(epoch_data, "merkle_root", tree.root),
                "sample_count", Len(sample_list)),
            "leaf_hashes", tree.leaf_hashes)

sign_epoch(epoch_data, sample_list, id, now) ==
    LET epoch_doc == EpochDoc(epoch_data, sample_list)
        canonical == canonicalize_json(epoch_doc)
    IN  Put(epoch_doc, "_signing",
            [device_id |-> id.device_id,
             public_key |-> Ed25519Prefixed(public_key_hex(id)),
             signed_at |-> now,
             epoch_hash |-> hash_hex(canonical),
             signature |-> Ed25519Prefixed(sign_hex(id, hash_data(canonical)))])

\* verify_epoch(epoch_doc, samples=None, identity)
verify_epoch(epoch_doc, id) ==
    IF ~Has(epoch_doc, "_signing") THEN [ok |-> FALSE, msg |-> NoSignature]
    ELSE LET signing_info == Get(epoch_doc, "_signing")
             canonical == canonicalize_json(Strip(epoch_doc, SigningKeys))
         IN  IF hash_hex(canonical) # signing_info.epoch_hash
             THEN [ok |-> FALSE, msg |-> EpochHashMismatch]
             ELSE IF verify(id, hash_data(canonical),
                            FromHex(RemovePrefix(signing_info.signature)))
                  THEN [ok |-> TRUE, msg |-> EpochValid]
                  ELSE [ok |-> FALSE, msg |-> SignatureInvalid]

(***************************************************************************)
(* Part VIII: the anomaly detector (src/security/anomaly.py).              *)
(*                                                                         *)
(* A sample is flat here: the key "fan_cfm" stands for sample["fan"]["cfm"]*)
(* and "fan_watts" for sample["fan"]["watts"]; the other tracked fields    *)
(* are treated the same way by the code and are left out.  The flatline    *)
(* check is modelled with its window and threshold scaled down.  The       *)
(* checks against the running statistics (outlier, sudden jump,            *)
(* cross-sensor) add reports and change no state of the detector; they     *)
(* need MIN_BASELINE_SAMPLES = 50 samples and are left out.                *)
(***************************************************************************)
\* samples fed to one detector
MaxFed == 4
\* deque(maxlen=1000), scaled
RECENT_HASHES_MAXLEN == 2
\* deque(maxlen=20), scaled
RECENT_VALUES_MAXLEN == 3
\* FLATLINE_THRESHOLD = 10, scaled
FLATLINE_THRESHOLD == 2

TRACKED_FIELDS == <<"cfm", "watts">>
TrackedFields == {TRACKED_FIELDS[i] : i \in DOMAIN TRACKED_FIELDS}
FieldKey(field) == IF field = "cfm" THEN "fan_cfm" ELSE "fan_watts"
CFM_MAX == 1000
WATTS_MAX == 200
PHYSICAL_LIMITS(field) ==
    IF field = "cfm" THEN [min |-> 0, max |-> CFM_MAX] ELSE [min |-> 0, max |-> WATTS_MAX]

AnomalyReport(type, severity, field) ==
    [anomaly_type |-> type, severity |-> severity, field |-> field]

\* AnomalyDetector.__init__ without saved baselines
FreshDetector ==
    [baselines |-> [field \in TrackedFields |-> 0],
     recent_values |-> [field \in TrackedFields |-> <<>>],
     recent_hashes |-> <<>>,
     last_timestamp |-> -1]

\* deque.append on a deque(maxlen=n)
DequeAppend(d, x, n) ==
    LET appended == Append(d, x)
    IN  SubSeq(appended, Len(appended) - Min(Len(appended), n) + 1, Len(appended))

\* _extract_values: the tracked fields the sample carries, in dict order
_extract_values(sample) ==
    SelectSeq(TRACKED_FIELDS, LAMBDA field : Has(sample, FieldKey(field)))

\* sample["_signing"].get("payload_hash"), <<>> for None
SampleHash(sample) ==
    IF Has(sample, "_signing") THEN Get(sample, "_signing").payload_hash ELSE <<>>

\* _check_timestamp that lets a timestamp equal to the last one pass
_check_timestamp_equal_passes(last_timestamp, sample) ==
    IF ~Has(sample, "timestamp") THEN [last |-> last_timestamp, reports |-> <<>>]
    ELSE LET current_ts == Get(sample, "timestamp")
         IN  IF last_timestamp # -1 /\ current_ts < last_timestamp
             THEN [last |-> last_timestamp,
                   reports |-> <<AnomalyReport("timestamp_violation", "critical", "timestamp")>>]
             ELSE [last |-> current_ts, reports |-> <<>>]

_check_timestamp(last_timestamp, sample) ==
    IF ~Has(sample, "timestamp") THEN [last |-> last_timestamp, reports |-> <<>>]
    ELSE LET current_ts == Get(sample, "timestamp")
         IN  IF last_timestamp # -1 /\ current_ts <= last_timestamp
             THEN [last |-> last_timestamp,
                   reports |-> <<AnomalyReport("timestamp_violation", "critical", "timestamp")>>]
             ELSE [last |-> current_ts, reports |-> <<>>]

\* _check_replay recording the hash before it looks for it
_check_replay_append_first(recent_hashes, payload_hash) ==
    LET appended == DequeAppend(recent_hashes, payload_hash, RECENT_HASHES_MAXLEN)
    IN  IF \E i \in DOMAIN appended : appended[i] = payload_hash
        THEN [recent |-> appended,
              reports |-> <<AnomalyReport("replay_attack", "critical", "payload_hash")>>]
        ELSE [recent |-> appended, reports |-> <<>>]

_check_replay(recent_hashes, payload_hash) ==
    IF \E i \in DOMAIN recent_hashes : recent_hashes[i] = payload_hash
    THEN [recent |-> recent_hashes,
          reports |-> <<AnomalyReport("replay_attack", "critical", "payload_hash")>>]
    ELSE [recent |-> DequeAppend(recent_hashes, payload_hash, RECENT_HASHES_MAXLEN),
          reports |-> <<>>]

_check_physical_limits(field, value) ==
    IF value < PHYSICAL_LIMITS(field).min \/ value > PHYSICAL_LIMITS(field).max
    THEN <<AnomalyReport("impossible_value", "critical", field)>>
    ELSE <<>>

\* "for past_value in reversed(recent)": the length of the run of values
\* equal to value at the end of recent (the readings are whole numbers, so
\* abs(past_value - value) < 0.001 is equality)
RECURSIVE IdenticalCount(_, _)
IdenticalCount(recent_values, value) ==
    IF recent_values = <<>> \/ recent_values[Len(recent_values)] # value THEN 0
    ELSE 1 + IdenticalCount(SubSeq(recent_values, 1, Len(recent_values) - 1), value)

_check_flatline(recent_values, field, value) ==
    IF IdenticalCount(recent_values, value) >= FLATLINE_THRESHOLD
    THEN <<AnomalyReport("flatline", "warning", field)>>
    ELSE <<>>

\* One round of the loop over the values that keeps an impossible value out
\* of the baseline
check_field_skipping_outliers(stats, field, value) ==
    LET limit == _check_physical_limits(field, value)
    IN  [baselines |-> IF limit = <<>> THEN [stats.baselines EXCEPT ![field] = @ + 1]
                       ELSE stats.baselines,
         recent_values |-> [stats.recent_values EXCEPT
                              ![field] = DequeAppend(@, value, RECENT_VALUES_MAXLEN)],
         reports |-> limit \o _check_flatline(stats.recent_values[field], field, value)]

\* One round of "for field, value in values.items()" on the baselines and the
\* recent values: the checks of the value, then BaselineStats.update and
\* the append to the recent values
check_field(stats, field, value) ==
    [baselines |-> [stats.baselines EXCEPT ![field] = @ + 1],
     recent_values |-> [stats.recent_values EXCEPT
                          ![field] = DequeAppend(@, value, RECENT_VALUES_MAXLEN)],
     reports |-> _check_physical_limits(field, value)
                    \o _check_flatline(stats.recent_values[field], field, value)]

\* The loop over the values from the i-th on
RECURSIVE check_fields(_, _, _, _)
check_fields(stats, sample, values, i) ==
    IF i > Len(values)
    THEN [baselines |-> stats.baselines, recent_values |-> stats.recent_values,
          reports |-> <<>>]
    ELSE LET one == check_field(stats, values[i], Get(sample, FieldKey(values[i])))
             rest == check_fields(one, sample, values, i + 1)
         IN  [rest EXCEPT !.reports = one.reports \o @]

\* check_sample(sample) on detector d: the detector it leaves and the
\* reports it returns
check_sample(d, sample) ==
    LET values == _extract_values(sample)
        sample_hash == SampleHash(sample)
        ts == _check_timestamp(d.last_timestamp, sample)
        replay == IF sample_hash # <<>> THEN _check_replay(d.recent_hashes, sample_hash)
                  ELSE [recent |-> d.recent_hashes, reports |-> <<>>]
        fields == check_fields(d, sample, values, 1)
    IN  [detector |-> [baselines |-> fields.baselines,
                       recent_values |-> fields.recent_values,
                       recent_hashes |-> replay.recent,
                       last_timestamp |-> ts.last],
         anomalies |-> ts.reports \o replay.reports \o fields.reports]

has_critical_anomalies(reports) ==
    \E i \in DOMAIN reports : reports[i].severity = "critical"

\* the detector of the collector
Detector ==
    [baselines |-> _baselines, recent_values |-> _recent_values,
     recent_hashes |-> _recent_hashes,
     last_timestamp |-> _last_timestamp]

\* a call of check_sample on the detector of the collector
CheckSample(sample) ==
    LET checked == check_sample(Detector, sample)
    IN  /\ _baselines' = checked.detector.baselines
        /\ _recent_values' = checked.detector.recent_values
        /\ _recent_hashes' = checked.detector.recent_hashes
        /\ _last_timestamp' = checked.detector.last_timestamp
        /\ fed_samples' = Append(fed_samples, sample)
        /\ anomalies' = checked.anomalies

InitDetector ==
    /\ _baselines = FreshDetector.baselines
    /\ _recent_values = FreshDetector.recent_values
    /\ _recent_hashes = FreshDetector.recent_hashes
    /\ _last_timestamp = FreshDetector.last_timestamp
    /\ fed_samples = <<>>
    /\ anomalies = <<>>

\* The payloads fed to a detector on its own: sound readings, an impossible
\* airflow, an impossible power, a sample without airflow
DetectorPayloads == {
    << <<"timestamp", 0>>, <<"device_id", 1>>, <<"fan_cfm", 250>>, <<"fan_watts", 28>> >>,
    << <<"timestamp", 12>>, <<"device_id", 1>>, <<"fan_cfm", 0 - 50>> >>,
    << <<"timestamp", 12>>, <<"device_id", 1>>, <<"fan_watts", 28>> >>,
    << <<"timestamp", 24>>, <<"device_id", 1>>, <<"fan_cfm", 250>>, <<"fan_watts", 300>> >> }
\* the signer of the samples fed
DetectorSigner == [device_id |-> <<"btfi-", "kA">>, key |-> "kA"]
SignedForDetector(payload) == sign_payload(payload, DetectorSigner, Get(payload, "timestamp"))
\* each payload unsigned and signed, and a signed one altered after signing
DetectorSamples ==
    DetectorPayloads \cup {SignedForDetector(payload) : payload \in DetectorPayloads}
        \cup {Put(SignedForDetector(payload), "fan_cfm", 251) :
                 payload \in {q \in DetectorPayloads : Get(q, "timestamp") = 0}}

\* a caller feeding one sample to the detector
detector_check_sample ==
    /\ Len(fed_samples) < MaxFed
    /\ \E sample \in DetectorSamples : CheckSample(sample)
    /\ UNCHANGED nonDetectorVars

(***************************************************************************)
(* Part III: the collection loop and the epoch assembler.                  *)
(*                                                                         *)
(* Time is in seconds; the k-th sample read carries the timestamp          *)
(* (k - 1) * SAMPLE_INTERVAL_SECONDS.  Two threads run the code: "tick"    *)
(* is the collection thread, "stop" the caller of stop().                  *)
(***************************************************************************)
\* ticks explored
MaxTicks == 6

SAMPLE_INTERVAL_SECONDS == 12
\* one-minute epochs (the repository default is 60)
EPOCH_DURATION_MINUTES == 1
SECONDS_PER_HOUR == 3600
\* config.DEVICE_ID, as a number
DEVICE_ID == 1
NoTime == -1
NoSample == <<>>

\* _generate_device_id: "btfi-" + sha256(public_bytes).digest()[:8].hex()
First8(bytes) == << <<"first8", bytes>> >>
_generate_device_id(key) == <<"btfi-", Hex(First8(hash_data(<< <<"raw", key>> >>)))>>
\* the identity the collector loaded at construction
CollectorIdentity == [device_id |-> _generate_device_id("kA"), key |-> "kA"]

Timestamp(k) == (k - 1) * SAMPLE_INTERVAL_SECONDS
SampleNo(sample) == Get(sample, "timestamp") \div SAMPLE_INTERVAL_SECONDS + 1
SampleNos(sample_list) == {SampleNo(sample_list[i]) : i \in DOMAIN sample_list}

\* the airflow the sensors may read
Readings(mode) == IF mode = "sound" THEN {250} ELSE {250, 0 - 50}

\* sensors.read_all: the k-th reading
read_all(k, cfm) == <<
    <<"timestamp", Timestamp(k)>>, <<"device_id", DEVICE_ID>>, <<"fan_cfm", cfm>> >>

\* sample["_anomalies"]; list(set(...)) keeps the distinct types in no
\* particular order
AnomalySummary(reports) ==
    [count |-> Len(reports),
     has_critical |-> has_critical_anomalies(reports),
     types |-> {reports[i].anomaly_type : i \in DOMAIN reports}]

_sign_sample(sample, signing) ==
    IF signing THEN sign_payload(sample, CollectorIdentity, Get(sample, "timestamp"))
    ELSE sample

\* The loop signing the sample first and attaching the summary afterwards
LoopSample_flags_after_signing(sample, reports, signing) ==
    IF reports # <<>>
    THEN Put(_sign_sample(sample, signing), "_anomalies", AnomalySummary(reports))
    ELSE _sign_sample(sample, signing)

\* _collection_loop from the reports of the detector to the signed sample
LoopSample(sample, reports, signing) ==
    _sign_sample(IF reports # <<>> THEN Put(sample, "_anomalies", AnomalySummary(reports))
                 ELSE sample,
                 signing)

\* epoch_data of _finalize_epoch with the issuance section attached
EpochData(sample_list, start_time) == <<
    <<"epoch_id", start_time \div SECONDS_PER_HOUR>>,
    <<"device_id", DEVICE_ID>>,
    <<"sample_count", Len(sample_list)>>,
    <<"summary", Len(sample_list)>>,
    <<"issuance", Len(sample_list)>> >>

\* _finalize_epoch attaching the issuance section to the signed document
FinalizeDoc_issuance_after_signing(sample_list, start_time, signing) ==
    LET epoch_data == Strip(EpochData(sample_list, start_time), {"issuance"})
        now == Get(sample_list[Len(sample_list)], "timestamp")
    IN  Put(IF signing THEN sign_epoch(epoch_data, sample_list, CollectorIdentity, now)
            ELSE Put(epoch_data, "sample_count", Len(sample_list)),
            "issuance", Len(sample_list))

\* The epoch document _finalize_epoch persists and forwards
FinalizeDoc(sample_list, start_time, signing) ==
    LET epoch_data == EpochData(sample_list, start_time)
        now == Get(sample_list[Len(sample_list)], "timestamp")
    IN  IF signing THEN sign_epoch(epoch_data, sample_list, CollectorIdentity, now)
        ELSE Put(epoch_data, "sample_count", Len(sample_list))

\* EvidencePackBuilder._format_sample_for_spec: a new dict with the place of
\* the sample in the epoch, its timestamp, the readings under the names of
\* the pack format and the anomaly types
_format_sample_for_spec(sample, seq) == <<
    <<"seq", seq>>,
    <<"timestamp", IF Has(sample, "timestamp") THEN Get(sample, "timestamp") ELSE 0>>,
    <<"fan_power_w", IF Has(sample, "fan_watts") THEN Get(sample, "fan_watts") ELSE 0>>,
    <<"fan_cfm", IF Has(sample, "fan_cfm") THEN Get(sample, "fan_cfm") ELSE 0>>,
    <<"anomaly_flags", IF Has(sample, "_anomalies") THEN Get(sample, "_anomalies").types
                       ELSE {}>> >>

\* EvidencePackBuilder.build_pack: samples.json and leaf_hashes.json
build_pack(epoch, sample_list) ==
    [samples |-> [i \in DOMAIN sample_list |-> _format_sample_for_spec(sample_list[i], i - 1)],
     leaves |-> IF Has(epoch, "leaf_hashes") THEN Get(epoch, "leaf_hashes") ELSE <<>>]

\* _store_epoch: INSERT OR REPLACE on the UNIQUE epoch_id
_store_epoch(rows, epoch) ==
    Append(SelectSeq(rows, LAMBDA r : Get(r, "epoch_id") # Get(epoch, "epoch_id")), epoch)

TickIdle == [pc |-> "idle", sample |-> NoSample]
Threads == {"tick", "stop"}
ThreadPc(t) == IF t = "tick" THEN tick.pc ELSE stopper.pc
\* thread t moves on to position pc
Goto(t, pc) ==
    IF t = "tick"
    THEN tick' = [tick EXCEPT !.pc = pc] /\ UNCHANGED stopper
    ELSE stopper' = [stopper EXCEPT !.pc = pc] /\ UNCHANGED tick
\* where a thread continues after _finalize_epoch
AfterFinalize(t) == IF t = "tick" THEN "idle" ELSE "returned"

\* TelemetryCollector.start
collector_start ==
    /\ ~col_running
    /\ tick.pc = "new"
    /\ stopper.pc = "none"
    /\ col_running' = TRUE
    /\ tick' = TickIdle
    /\ UNCHANGED <<stopper, ticks, enable_signing, _current_epoch_start,
                   _current_epoch_samples, epochs, sealed,
                   uplinkVars, storeVars, serviceVars, cryptoVars, issuanceVars>>

\* _collection_loop after _check_epoch returned: the callbacks get the sample
\* and the iteration ends
Notify ==
    /\ delivered' = Append(delivered, tick.sample)
    /\ tick' = TickIdle

\* thread t returns from _finalize_epoch
Return(t) ==
    IF t = "tick" THEN Notify /\ UNCHANGED stopper
    ELSE Goto(t, AfterFinalize(t)) /\ UNCHANGED delivered

\* _collection_loop, top of an iteration: read one sample, have the detector
\* check it, sign it and store it
collect_sample ==
    /\ tick.pc = "idle"
    /\ col_running
    /\ ticks < MaxTicks
    /\ ticks' = ticks + 1
    /\ \E cfm \in Readings(sensors) :
          LET sample == read_all(ticks + 1, cfm)
              reports == check_sample(Detector, sample).anomalies
              signed == LoopSample(sample, reports, enable_signing)
          IN  /\ CheckSample(sample)
              /\ raw_json' = CleanupRows(Append(raw_json, signed))
              /\ tick' = [pc |-> "check_epoch", sample |-> signed]
    /\ UNCHANGED <<col_running, stopper, enable_signing, _current_epoch_start,
                   _current_epoch_samples, epochs, sealed, sensors, delivered, orch, steps, stale, restarts,
                   uplinkVars, storeVars, configVars, fanVars, cryptoVars, issuanceVars>>

\* _collection_loop leaving the while loop
loop_exit ==
    /\ tick.pc = "idle"
    /\ ~col_running
    /\ tick' = [tick EXCEPT !.pc = "exited"]
    /\ UNCHANGED <<col_running, stopper, ticks, enable_signing, _current_epoch_start,
                   _current_epoch_samples, epochs, sealed,
                   uplinkVars, storeVars, serviceVars, cryptoVars, issuanceVars>>

\* _check_epoch(sample), up to the call of _finalize_epoch
_check_epoch ==
    /\ tick.pc = "check_epoch"
    /\ LET sample_time == Get(tick.sample, "timestamp")
           epoch_start == IF _current_epoch_start = NoTime THEN sample_time
                          ELSE _current_epoch_start
           buffer == IF _current_epoch_start = NoTime THEN <<>>
                     ELSE _current_epoch_samples
       IN  /\ _current_epoch_start' = epoch_start
           /\ _current_epoch_samples' = Append(buffer, tick.sample)
           /\ IF sample_time - epoch_start >= EPOCH_DURATION_MINUTES * 60
              THEN /\ tick' = [tick EXCEPT !.pc = "finalize"]
                   /\ UNCHANGED delivered
              ELSE Notify
    /\ UNCHANGED <<col_running, stopper, ticks, enable_signing, epochs, sealed,
                   sensors, raw_json, orch, steps, stale, restarts,
                   uplinkVars, storeVars, configVars, fanVars, detectorVars, cryptoVars,
                   issuanceVars>>

\* _finalize_epoch up to the hand-over: build, sign, persist and forward
finalize_seal(t) ==
    /\ ThreadPc(t) = "finalize"
    /\ IF _current_epoch_samples = <<>>
       THEN /\ Return(t)
            /\ UNCHANGED <<epochs, sealed>>
       ELSE LET doc == FinalizeDoc(_current_epoch_samples, _current_epoch_start,
                                   enable_signing)
            IN  /\ epochs' = _store_epoch(epochs, doc)
                /\ sealed' = Append(sealed, [samples |-> SampleNos(_current_epoch_samples),
                                             doc |-> doc,
                                             pack |-> build_pack(doc, _current_epoch_samples)])
                /\ Goto(t, "reset")
                /\ UNCHANGED delivered
    /\ UNCHANGED <<col_running, ticks, enable_signing, _current_epoch_start,
                   _current_epoch_samples, sensors, raw_json, orch, steps, stale, restarts,
                   uplinkVars, storeVars, configVars, fanVars, detectorVars, cryptoVars,
                   issuanceVars>>

\* _finalize_epoch, "Reset for next epoch"
finalize_reset(t) ==
    /\ ThreadPc(t) = "reset"
    /\ _current_epoch_start' = NoTime
    /\ _current_epoch_samples' = <<>>
    /\ Return(t)
    /\ UNCHANGED <<col_running, ticks, enable_signing, epochs, sealed,
                   sensors, raw_json, orch, steps, stale, restarts,
                   uplinkVars, storeVars, configVars, fanVars, detectorVars, cryptoVars,
                   issuanceVars>>

_finalize_epoch ==
    \E t \in Threads : finalize_seal(t) \/ finalize_reset(t)

\* TelemetryCollector.stop: self._running = False
stop_signal ==
    /\ stopper.pc = "none"
    /\ tick.pc # "new"
    /\ col_running' = FALSE
    /\ stopper' = [stopper EXCEPT !.pc = "join"]
    /\ UNCHANGED <<tick, ticks, enable_signing, _current_epoch_start,
                   _current_epoch_samples, epochs, sealed,
                   uplinkVars, storeVars, serviceVars, cryptoVars, issuanceVars>>

\* self._thread.join(timeout=5) returns: the thread ended, or 5 s passed
\* while it was still alive; then "if self._current_epoch_samples:"
join_thread ==
    /\ stopper.pc = "join"
    /\ stopper' = [pc |-> IF _current_epoch_samples # <<>> THEN "finalize" ELSE "returned",
                   timed_out |-> tick.pc # "exited"]
    /\ UNCHANGED <<col_running, tick, ticks, enable_signing, _current_epoch_start,
                   _current_epoch_samples, epochs, sealed,
                   uplinkVars, storeVars, serviceVars, cryptoVars, issuanceVars>>

collector_stop ==
    stop_signal \/ join_thread

\* start() calls after a stop() explored
MaxRestarts == 1
NoThread == [pc |-> "none", sample |-> NoSample]
\* a loop thread that has not left _collection_loop
Alive(thread) == thread.pc \notin {"new", "none", "exited"}

\* TelemetryCollector.start after stop() has returned: _running is False, so
\* a new loop thread is created; the loop thread that stop() gave up joining
\* is still there
collector_restart ==
    /\ ~col_running
    /\ stopper.pc = "returned"
    /\ ~Alive(stale)
    /\ restarts < MaxRestarts
    /\ restarts' = restarts + 1
    /\ col_running' = TRUE
    /\ stale' = IF Alive(tick) THEN tick ELSE NoThread
    /\ tick' = TickIdle
    /\ stopper' = [pc |-> "none", timed_out |-> FALSE]
    /\ UNCHANGED <<ticks, enable_signing, _current_epoch_start,
                   _current_epoch_samples, epochs, sealed, sensors, raw_json, delivered,
                   orch, steps, uplinkVars, storeVars, configVars, fanVars, detectorVars,
                   cryptoVars, issuanceVars>>

\* Both loop threads run _collection_loop on the same collector: the
\* scheduler turns to the other one
thread_switch ==
    /\ Alive(stale)
    /\ tick' = stale
    /\ stale' = tick
    /\ UNCHANGED <<col_running, stopper, ticks, enable_signing, _current_epoch_start,
                   _current_epoch_samples, epochs, sealed, sensors, raw_json, delivered,
                   orch, steps, restarts, uplinkVars, storeVars, configVars, fanVars,
                   detectorVars, cryptoVars, issuanceVars>>

(***************************************************************************)
(* Part III, continued: one iteration of _collection_loop statement by     *)
(* statement, in the running application (ENABLE_VERIFIER_SYNC: the        *)
(* collector holds a VerifierClient of its own, and app.py registers       *)
(* on_sample_collected and on_epoch_complete, which call the VerifierClient*)
(* of app.py).  orch.pc names the statement the loop thread executes next; *)
(* steps lists the steps of the iteration so far.                          *)
(***************************************************************************)
OrchInit == [pc |-> "read", sample |-> NoSample, epoch_data |-> <<>>, epoch |-> <<>>]
Event(step, by) == [step |-> step, by |-> by]

\* _collection_loop with the callbacks called before _check_epoch
NextPc_notify_before_assemble(pc, closing) ==
    CASE pc = "read" -> "check"
      [] pc = "check" -> "sign"
      [] pc = "sign" -> "store"
      [] pc = "store" -> "notify"
      [] pc = "notify" -> "assemble"
      [] pc = "assemble" -> IF closing THEN "issuance" ELSE "read"
      [] pc = "issuance" -> "sign_epoch"
      [] pc = "sign_epoch" -> "persist"
      [] pc = "persist" -> "pack"
      [] pc = "pack" -> "forward"
      [] pc = "forward" -> "epoch_callback"
      [] pc = "epoch_callback" -> "reset"
      [] pc = "reset" -> "read"

\* _finalize_epoch resetting the buffer before it forwards the epoch
NextPc_reset_before_forward(pc, closing) ==
    CASE pc = "read" -> "check"
      [] pc = "check" -> "sign"
      [] pc = "sign" -> "store"
      [] pc = "store" -> "assemble"
      [] pc = "assemble" -> IF closing THEN "issuance" ELSE "notify"
      [] pc = "issuance" -> "sign_epoch"
      [] pc = "sign_epoch" -> "persist"
      [] pc = "persist" -> "pack"
      [] pc = "pack" -> "reset"
      [] pc = "reset" -> "forward"
      [] pc = "forward" -> "epoch_callback"
      [] pc = "epoch_callback" -> "notify"
      [] pc = "notify" -> "read"

\* The statement after pc in _collection_loop, _check_epoch and
\* _finalize_epoch; closing: the sample just appended completes the epoch
NextPc(pc, closing) ==
    CASE pc = "read" -> "check"
      [] pc = "check" -> "sign"
      [] pc = "sign" -> "store"
      [] pc = "store" -> "assemble"
      [] pc = "assemble" -> IF closing THEN "issuance" ELSE "notify"
      [] pc = "issuance" -> "sign_epoch"
      [] pc = "sign_epoch" -> "persist"
      [] pc = "persist" -> "pack"
      [] pc = "pack" -> "forward"
      [] pc = "forward" -> "epoch_callback"
      [] pc = "epoch_callback" -> "reset"
      [] pc = "reset" -> "notify"
      [] pc = "notify" -> "read"

\* what no statement of the iteration changes
orchFrame == <<col_running, tick, stopper, enable_signing, sensors, stale, restarts,
               uplinkVars, storeVars, configVars, fanVars, cryptoVars, issuanceVars>>
\* the statement at pc runs: the thread moves on and the steps are logged
Ran(pc, events) ==
    /\ orch.pc = pc
    /\ steps' = steps \o events

\* sample = self.sensors.read_all(current_pwm)
orch_read ==
    /\ orch.pc = "read"
    /\ col_running
    /\ ticks < MaxTicks
    /\ ticks' = ticks + 1
    /\ steps' = <<Event("read", "loop")>>
    /\ \E cfm \in Readings(sensors) :
          orch' = [orch EXCEPT !.pc = NextPc("read", FALSE),
                               !.sample = read_all(ticks + 1, cfm)]
    /\ UNCHANGED <<detectorVars, raw_json, delivered, _current_epoch_start,
                   _current_epoch_samples, epochs, sealed, orchFrame>>

\* anomalies = check_sample(sample); sample["_anomalies"] = {...}
orch_check ==
    /\ Ran("check", <<Event("check", "loop")>>)
    /\ CheckSample(orch.sample)
    /\ orch' = [orch EXCEPT
                  !.pc = NextPc("check", FALSE),
                  !.sample = LoopSample(orch.sample,
                                        check_sample(Detector, orch.sample).anomalies, FALSE)]
    /\ UNCHANGED <<ticks, raw_json, delivered, _current_epoch_start,
                   _current_epoch_samples, epochs, sealed, orchFrame>>

\* sample = self._sign_sample(sample)
orch_sign ==
    /\ Ran("sign", <<Event("sign", "loop")>>)
    /\ orch' = [orch EXCEPT !.pc = NextPc("sign", FALSE),
                            !.sample = _sign_sample(orch.sample, enable_signing)]
    /\ UNCHANGED <<ticks, detectorVars, raw_json, delivered, _current_epoch_start,
                   _current_epoch_samples, epochs, sealed, orchFrame>>

\* self._store_sample(sample)
orch_store ==
    /\ Ran("store", <<Event("store", "loop")>>)
    /\ raw_json' = CleanupRows(Append(raw_json, orch.sample))
    /\ orch' = [orch EXCEPT !.pc = NextPc("store", FALSE)]
    /\ UNCHANGED <<ticks, detectorVars, delivered, _current_epoch_start,
                   _current_epoch_samples, epochs, sealed, orchFrame>>

\* _check_epoch(sample) up to the call of _finalize_epoch
orch_assemble ==
    /\ Ran("assemble", <<Event("assemble", "loop")>>)
    /\ LET sample_time == Get(orch.sample, "timestamp")
           epoch_start == IF _current_epoch_start = NoTime THEN sample_time
                          ELSE _current_epoch_start
           buffer == IF _current_epoch_start = NoTime THEN <<>>
                     ELSE _current_epoch_samples
       IN  /\ _current_epoch_start' = epoch_start
           /\ _current_epoch_samples' = Append(buffer, orch.sample)
           /\ orch' = [orch EXCEPT
                         !.pc = NextPc("assemble",
                                       sample_time - epoch_start
                                           >= EPOCH_DURATION_MINUTES * 60)]
    /\ UNCHANGED <<ticks, detectorVars, raw_json, delivered, epochs, sealed, orchFrame>>

\* _finalize_epoch: epoch_data with the result of calculate_epoch_issuance
close_issuance ==
    /\ Ran("issuance", <<Event("issuance", "loop")>>)
    /\ orch' = [orch EXCEPT
                  !.pc = NextPc("issuance", FALSE),
                  !.epoch_data = EpochData(_current_epoch_samples, _current_epoch_start)]
    /\ UNCHANGED <<ticks, detectorVars, raw_json, delivered, _current_epoch_start,
                   _current_epoch_samples, epochs, sealed, orchFrame>>

\* _finalize_epoch: epoch = sign_epoch(epoch_data, samples, identity), which
\* builds the Merkle tree and then signs
close_sign_epoch ==
    /\ Ran("sign_epoch", IF enable_signing
                         THEN <<Event("merkle", "loop"), Event("sign_epoch", "loop")>>
                         ELSE <<>>)
    /\ LET sample_list == _current_epoch_samples
           now == Get(sample_list[Len(sample_list)], "timestamp")
       IN  orch' = [orch EXCEPT
                      !.pc = NextPc("sign_epoch", FALSE),
                      !.epoch = IF enable_signing
                                THEN sign_epoch(orch.epoch_data, sample_list,
                                                CollectorIdentity, now)
                                ELSE Put(orch.epoch_data, "sample_count", Len(sample_list))]
    /\ UNCHANGED <<ticks, detectorVars, raw_json, delivered, _current_epoch_start,
                   _current_epoch_samples, epochs, sealed, orchFrame>>

\* _finalize_epoch: self._store_epoch(epoch)
close_persist ==
    /\ Ran("persist", <<Event("persist", "loop")>>)
    /\ epochs' = _store_epoch(epochs, orch.epoch)
    /\ orch' = [orch EXCEPT !.pc = NextPc("persist", FALSE)]
    /\ UNCHANGED <<ticks, detectorVars, raw_json, delivered, _current_epoch_start,
                   _current_epoch_samples, sealed, orchFrame>>

\* _finalize_epoch: build_pack(epoch, samples), which uploads the pack
close_pack ==
    /\ Ran("pack", <<Event("pack", "loop"), Event("upload", "loop")>>)
    /\ sealed' = Append(sealed, [samples |-> SampleNos(_current_epoch_samples),
                                 doc |-> orch.epoch,
                                 pack |-> build_pack(orch.epoch, _current_epoch_samples)])
    /\ orch' = [orch EXCEPT !.pc = NextPc("pack", FALSE)]
    /\ UNCHANGED <<ticks, detectorVars, raw_json, delivered, _current_epoch_start,
                   _current_epoch_samples, epochs, orchFrame>>

\* _finalize_epoch: self._verifier_client.send_epoch(epoch)
close_forward ==
    /\ Ran("forward", <<Event("send_epoch", "collector")>>)
    /\ orch' = [orch EXCEPT !.pc = NextPc("forward", FALSE)]
    /\ UNCHANGED <<ticks, detectorVars, raw_json, delivered, _current_epoch_start,
                   _current_epoch_samples, epochs, sealed, orchFrame>>

\* _finalize_epoch: self._epoch_callback(epoch), that is on_epoch_complete:
\* verifier_client.send_epoch(epoch)
close_epoch_callback ==
    /\ Ran("epoch_callback", <<Event("send_epoch", "app")>>)
    /\ orch' = [orch EXCEPT !.pc = NextPc("epoch_callback", FALSE)]
    /\ UNCHANGED <<ticks, detectorVars, raw_json, delivered, _current_epoch_start,
                   _current_epoch_samples, epochs, sealed, orchFrame>>

\* _finalize_epoch: reset for the next epoch
close_reset ==
    /\ Ran("reset", <<Event("reset", "loop")>>)
    /\ _current_epoch_start' = NoTime
    /\ _current_epoch_samples' = <<>>
    /\ orch' = [orch EXCEPT !.pc = NextPc("reset", FALSE)]
    /\ UNCHANGED <<ticks, detectorVars, raw_json, delivered, epochs, sealed, orchFrame>>

\* the callbacks: on_sample_collected calls verifier_client.send_sample(sample)
orch_notify ==
    /\ Ran("notify", <<Event("send_sample", "app")>>)
    /\ delivered' = Append(delivered, orch.sample)
    /\ orch' = [orch EXCEPT !.pc = NextPc("notify", FALSE)]
    /\ UNCHANGED <<ticks, detectorVars, raw_json, _current_epoch_start,
                   _current_epoch_samples, epochs, sealed, orchFrame>>

(***************************************************************************)
(* Part IV, continued: the device identity on disk, and a payload that is  *)
(* signed, altered and verified.                                           *)
(***************************************************************************)
\* leaves explored by create_merkle_root
MaxLeaves == 5

NoDeviceId == <<"none">>
\* a device_id handed to the constructor
CustomId == <<"btfi-", Hex(<< <<"raw", "iot-001">> >>)>>
NoIdentity == [device_id |-> NoDeviceId, key |-> "none"]
\* contents of device_private.pem that load_pem_private_key cannot parse
Malformed == "malformed"
\* device_private.pem, device_public.pem and the device_id of identity.json;
\* "none" and NoDeviceId stand for a file that does not exist
EmptyKeyDir == [private |-> "none", public |-> "none", device_id |-> NoDeviceId]
NoOutcome == [kind |-> "none"]

\* Payloads handed to sign_payload: with and without a timestamp, in either
\* insertion order of their fields.
Payloads == {
    << <<"timestamp", 0>>, <<"fan_cfm", 250>> >>,
    << <<"fan_cfm", 250>>, <<"timestamp", 0>> >>,
    << <<"fan_cfm", 250>>, <<"device_id", DEVICE_ID>> >>,
    << <<"device_id", DEVICE_ID>>, <<"fan_cfm", 251>>, <<"timestamp", 12>> >> }
Plain(payload) == [stage |-> "plain", doc |-> payload, signer |-> "none"]

\* _load_keys: parsing the private key file raises on malformed contents
LoadRaises(kd) == kd.private = Malformed

\* DeviceIdentity.__init__(device_id) -> _load_or_generate.  A generated
\* keypair is a fresh one.
_load_or_generate ==
    /\ identity = NoIdentity
    /\ \E device_id \in {NoDeviceId, CustomId}, generated \in KeyPairs \ {key_dir.private} :
          IF key_dir.private # "none" /\ key_dir.public # "none"
          THEN IF LoadRaises(key_dir)
               THEN /\ outcome' = [kind |-> "raised"]
                    /\ UNCHANGED <<identity, key_dir>>
               ELSE /\ identity' = [device_id |-> IF key_dir.device_id # NoDeviceId
                                                  THEN key_dir.device_id ELSE device_id,
                                    key |-> key_dir.private]
                    /\ UNCHANGED <<key_dir, outcome>>
          ELSE LET id == IF device_id # NoDeviceId THEN device_id
                         ELSE _generate_device_id(generated)
               IN  /\ identity' = [device_id |-> id, key |-> generated]
                   /\ key_dir' = [private |-> generated, public |-> generated,
                                  device_id |-> id]
                   /\ UNCHANGED outcome
    /\ UNCHANGED <<subject, uplinkVars, storeVars, serviceVars, collectorVars, issuanceVars>>

\* The process ends; the next one constructs DeviceIdentity again.
Restart ==
    /\ identity # NoIdentity
    /\ identity' = NoIdentity
    /\ UNCHANGED <<subject, outcome, key_dir, uplinkVars, storeVars, serviceVars, collectorVars,
                   issuanceVars>>

\* The key directory is replaced by that of another installation: the key
\* files change, identity.json stays (or the directory is wiped).
ReplaceKeys ==
    /\ identity = NoIdentity
    /\ key_dir.private # "none"
    /\ \/ \E k \in KeyPairs \ {key_dir.private} :
             key_dir' = [key_dir EXCEPT !.private = k, !.public = k]
       \/ key_dir' = EmptyKeyDir
    /\ UNCHANGED <<subject, outcome, identity, uplinkVars, storeVars, serviceVars, collectorVars,
                   issuanceVars>>

\* Between two runs one file of the key directory is lost or damaged: the
\* public key file or identity.json disappears, or the private key file no
\* longer parses.
DamageKeyDir ==
    /\ identity = NoIdentity
    /\ key_dir.private # "none"
    /\ \/ key_dir.public # "none" /\ key_dir' = [key_dir EXCEPT !.public = "none"]
       \/ key_dir.device_id # NoDeviceId
            /\ key_dir' = [key_dir EXCEPT !.device_id = NoDeviceId]
       \/ key_dir.private # Malformed
            /\ key_dir' = [key_dir EXCEPT !.private = Malformed]
    /\ UNCHANGED <<subject, outcome, identity, uplinkVars, storeVars, serviceVars, collectorVars,
                   issuanceVars>>

\* A new payload arrives.
NewPayload ==
    /\ subject.stage # "plain"
    /\ \E payload \in Payloads : subject' = Plain(payload)
    /\ outcome' = NoOutcome
    /\ UNCHANGED <<key_dir, identity, uplinkVars, storeVars, serviceVars, collectorVars, issuanceVars>>

\* sign_payload(payload, identity) with the identity loaded locally
sign_payload_step ==
    /\ identity # NoIdentity
    /\ subject.stage = "plain"
    /\ subject' = [stage |-> "signed",
                   doc |-> sign_payload(subject.doc, identity, 24),
                   signer |-> identity.key]
    /\ outcome' = NoOutcome
    /\ UNCHANGED <<key_dir, identity, uplinkVars, storeVars, serviceVars, collectorVars, issuanceVars>>

\* A field outside the signing envelope gets another value.
Tamper ==
    /\ subject.stage = "signed"
    /\ \E k \in Keys(subject.doc) \ SigningKeys :
          subject' = [subject EXCEPT !.stage = "tampered",
                                     !.doc = Put(@, k, Get(@, k) + 1)]
    /\ outcome' = NoOutcome
    /\ UNCHANGED <<key_dir, identity, uplinkVars, storeVars, serviceVars, collectorVars, issuanceVars>>

\* The envelope is made to name another public key.
SubstitutePublicKey ==
    /\ subject.stage = "signed"
    /\ \E k \in KeyPairs \ {subject.signer} :
          subject' = [subject EXCEPT
              !.stage = "relabelled",
              !.doc = Put(@, "_signing",
                          [Get(@, "_signing") EXCEPT
                              !.public_key = Ed25519Prefixed(public_key_hex([key |-> k]))])]
    /\ outcome' = NoOutcome
    /\ UNCHANGED <<key_dir, identity, uplinkVars, storeVars, serviceVars, collectorVars, issuanceVars>>

\* verify_signature(payload, identity) with the identity loaded locally
verify_signature_step ==
    /\ identity # NoIdentity
    /\ subject.stage # "plain"
    /\ outcome = NoOutcome
    /\ LET result == verify_signature(subject.doc, identity)
       IN  outcome' = [kind |-> "verify", ok |-> result.ok, msg |-> result.msg,
                       verifier |-> identity.key]
    /\ UNCHANGED <<subject, key_dir, identity, uplinkVars, storeVars, serviceVars, collectorVars,
                   issuanceVars>>

\* create_merkle_root(items)
create_merkle_root_step ==
    /\ subject.stage = "items"
    /\ outcome = NoOutcome
    /\ LET result == create_merkle_root(subject.doc)
       IN  outcome' = [kind |-> "merkle", root |-> result.root,
                       leaf_hashes |-> result.leaf_hashes]
    /\ UNCHANGED <<subject, key_dir, identity, uplinkVars, storeVars, serviceVars, collectorVars,
                   issuanceVars>>

(***************************************************************************)
(* Part V: the issuance calculator.                                        *)
(*                                                                         *)
(* Token amounts are whole numbers of 1e-8 token, so that round(x, 6)      *)
(* rounds to a multiple of UnitsPerMicro; tokens_issued is drawn from      *)
(* amounts whose four shares are whole numbers of units.                   *)
(***************************************************************************)
\* calculate_epoch_issuance calls explored
MaxIssuanceCalls == 3

UnitsPerMicro == 100
\* TokenomicsConfig: the four fractions, in percent
PCT_TO_FACILITIES == 75
PCT_TO_VERIFIERS == 5
PCT_TO_TREASURY == 10
PCT_TO_TEAM == 10
\* TokenomicsConfig.team_emission_cap_btfi, in units (scaled)
TEAM_EMISSION_CAP_BTFI == 60
\* tokens_issued of an epoch, in units
TokenAmounts == {0, 20, 300, 460, 1000}

Max(a, b) == IF a > b THEN a ELSE b

\* round(x, 6): to the nearest micro-token, ties to even
Round6(x) ==
    LET q == x \div UnitsPerMicro
        r == x % UnitsPerMicro
    IN  IF 2 * r < UnitsPerMicro THEN q * UnitsPerMicro
        ELSE IF 2 * r > UnitsPerMicro THEN (q + 1) * UnitsPerMicro
        ELSE IF q % 2 = 0 THEN q * UnitsPerMicro ELSE (q + 1) * UnitsPerMicro

NoIssuance == [kind |-> "none"]

_calculate_split(total_tokens, team_tokens_issued) ==
    LET to_facilities == (total_tokens * PCT_TO_FACILITIES) \div 100
        to_verifiers == (total_tokens * PCT_TO_VERIFIERS) \div 100
        to_treasury == (total_tokens * PCT_TO_TREASURY) \div 100
        to_team == (total_tokens * PCT_TO_TEAM) \div 100
        team_cap_reached == team_tokens_issued + to_team > TEAM_EMISSION_CAP_BTFI
        remaining_team_allowance == Max(0, TEAM_EMISSION_CAP_BTFI - team_tokens_issued)
    IN  [kind |-> "split",
         total_tokens |-> total_tokens,
         to_facilities |-> to_facilities,
         to_verifiers |-> to_verifiers,
         to_treasury |-> IF team_cap_reached
                         THEN to_treasury + (to_team - remaining_team_allowance)
                         ELSE to_treasury,
         to_team |-> IF team_cap_reached THEN remaining_team_allowance ELSE to_team,
         team_cap_reached |-> team_cap_reached]

\* IssuanceSplit.to_dict
to_dict(split) ==
    [kind |-> "split",
     total_tokens |-> Round6(split.total_tokens),
     to_facilities |-> Round6(split.to_facilities),
     to_verifiers |-> Round6(split.to_verifiers),
     to_treasury |-> Round6(split.to_treasury),
     to_team |-> Round6(split.to_team),
     team_cap_reached |-> split.team_cap_reached]

\* calculate_epoch_issuance, from tokens_issued on: the split of this epoch
calculate_epoch_issuance ==
    /\ issuance_calls < MaxIssuanceCalls
    /\ \E tokens_issued \in TokenAmounts :
          LET split == _calculate_split(tokens_issued, _team_tokens_issued)
          IN  /\ issuance' = split
              /\ team_paid' = team_paid + split.to_team
    /\ issuance_calls' = issuance_calls + 1
    /\ UNCHANGED <<_team_tokens_issued, uplinkVars, storeVars, serviceVars, collectorVars, cryptoVars>>

\* set_team_tokens_issued(amount): the caller hands in the total it tracked
set_team_tokens_issued ==
    /\ _team_tokens_issued # team_paid
    /\ _team_tokens_issued' = team_paid
    /\ UNCHANGED <<team_paid, issuance, issuance_calls,
                   uplinkVars, storeVars, serviceVars, collectorVars, cryptoVars>>

(***************************************************************************)
(* Initial states and specifications.                                      *)
(***************************************************************************)
InitStore ==
    /\ samples = <<>>
    /\ store_seq = 0
    /\ store_pc = "idle"
    /\ recent = <<>>

\* The collector after construction, before start()
InitCollector ==
    /\ col_running = FALSE
    /\ tick = [pc |-> "new", sample |-> NoSample]
    /\ stopper = [pc |-> "none", timed_out |-> FALSE]
    /\ ticks = 0
    /\ _current_epoch_start = NoTime
    /\ _current_epoch_samples = <<>>
    /\ epochs = <<>>
    /\ sealed = <<>>

\* An empty key directory, no identity constructed, nothing computed
InitCrypto ==
    /\ outcome = NoOutcome
    /\ key_dir = EmptyKeyDir
    /\ identity = NoIdentity

(***************************************************************************)
(* Part VI: the remote configuration manager (src/ota/config_manager.py).  *)
(*                                                                         *)
(* Two of the ALLOWED_FIELDS are modelled: sample_interval_seconds (int,   *)
(* 5..300, default 12) and enable_verifier_sync (bool, default True).  A   *)
(* configuration value is [type, v]; a bool carries v = 1 for True and 0   *)
(* for False, as bool is a subtype of int in Python.                       *)
(***************************************************************************)
\* accepted value changes explored
MaxConfigChanges == 4
\* records kept by _save_history and _load_history (100 in the repository)
HISTORY_KEEP == 2
SAMPLE_INTERVAL_MIN == 5
SAMPLE_INTERVAL_MAX == 300

IntValue(n) == [type |-> "int", v |-> n]
BoolValue(b) == [type |-> "bool", v |-> IF b THEN 1 ELSE 0]
ALLOWED_FIELDS == <<"sample_interval_seconds", "enable_verifier_sync">>
AllowedKeys == {ALLOWED_FIELDS[i] : i \in DOMAIN ALLOWED_FIELDS}
DefaultOf(key) ==
    IF key = "sample_interval_seconds" THEN IntValue(SAMPLE_INTERVAL_SECONDS)
    ELSE BoolValue(TRUE)
\* _load_config on a directory without device_config.json
DefaultConfig == [key \in AllowedKeys |-> DefaultOf(key)]

NoKey == <<>>
NoConfigSignature == <<>>
OperatorKey == [key |-> "kOp"]
NoConfigOp == [name |-> "none", signature |-> NoConfigSignature, ok |-> TRUE,
               changed |-> FALSE, data |-> <<>>, before |-> <<>>]

\* s[-n:] for n > 0
LastN(s, n) == IF Len(s) <= n THEN s ELSE SubSeq(s, Len(s) - n + 1, Len(s))

\* validate_value(key, value)[0]
validate_value(key, value) ==
    IF key \notin AllowedKeys THEN FALSE
    ELSE IF key = "sample_interval_seconds"
         THEN /\ value.type \in {"int", "bool"}
              /\ value.v >= SAMPLE_INTERVAL_MIN
              /\ value.v <= SAMPLE_INTERVAL_MAX
         ELSE value.type = "bool"

\* old_value == value of Python: True == 1 and False == 0
PyEq(a, b) == a.v = b.v

ConfigChange(key, old_value, new_value, source) ==
    [key |-> key, old_value |-> old_value, new_value |-> new_value, source |-> source]

\* The manager as the methods below transform it: _config, _history, the ghost
\* list of accepted changes, and the success flag of the call.
Manager == [config |-> _config, history |-> _history, applied |-> applied.values,
            ok |-> TRUE]

\* _record_change
_record_change(m, key, old_value, new_value, source) ==
    [m EXCEPT !.history = Append(@, ConfigChange(key, old_value, new_value, source))]

\* set that records a change although the value is the one already set
set_recording_unchanged(m, key, value, source) ==
    IF ~validate_value(key, value) THEN [m EXCEPT !.ok = FALSE]
    ELSE LET old_value == m.config[key]
             changed == [m EXCEPT !.config[key] = value, !.ok = TRUE,
                                  !.applied = IF PyEq(old_value, value) THEN @
                                              ELSE Append(@, value)]
         IN  _record_change(changed, key, old_value, value, source)

\* set(key, value, source)
set(m, key, value, source) ==
    IF ~validate_value(key, value) THEN [m EXCEPT !.ok = FALSE]
    ELSE LET old_value == m.config[key]
         IN  IF PyEq(old_value, value) THEN [m EXCEPT !.ok = TRUE]
             ELSE LET changed == [m EXCEPT !.config[key] = value, !.ok = TRUE,
                                           !.applied = Append(@, value)]
                  IN  _record_change(changed, key, old_value, value, source)

\* set_multiple(updates, source): the updates one by one, in dict order
\* set_multiple that applies the first pair only
set_multiple_first_only(m, updates, source) ==
    IF updates = <<>> THEN m
    ELSE set(m, updates[1][1], updates[1][2], source)

RECURSIVE set_multiple(_, _, _)
set_multiple(m, updates, source) ==
    IF updates = <<>> THEN m
    ELSE LET first == set(m, updates[1][1], updates[1][2], source)
             rest == set_multiple(first, Tail(updates), source)
         IN  [rest EXCEPT !.ok = first.ok /\ rest.ok]

\* reset_to_defaults
RECURSIVE ResetFrom(_, _)
ResetFrom(m, i) ==
    IF i > Len(ALLOWED_FIELDS) THEN m
    ELSE LET key == ALLOWED_FIELDS[i]
             old_value == m.config[key]
             new_value == DefaultOf(key)
         IN  IF ~PyEq(old_value, new_value)
             THEN ResetFrom(_record_change(
                      [m EXCEPT !.config[key] = new_value,
                                !.applied = Append(@, new_value)],
                      key, old_value, new_value, "reset"), i + 1)
             ELSE ResetFrom(m, i + 1)

\* _verify_config_signature(config_data, signature)[0]
_verify_config_signature(config_data, signature) ==
    LET signable == Strip(config_data, {"_signature"})
        content == canonicalize_json(signable)
    IN  verify([key |-> FromHex(_trusted_public_key_hex)[1][2]], content,
               FromHex(RemovePrefix(signature)))

\* apply_remote_config(config_data, signature)
apply_remote_config(m, config_data, signature) ==
    IF _trusted_public_key_hex # NoKey /\ signature # NoConfigSignature
       /\ ~_verify_config_signature(config_data, signature)
    THEN [m EXCEPT !.ok = FALSE]
    ELSE LET updates == SelectSeq(config_data, LAMBDA kv : kv[1] \in AllowedKeys)
         IN  IF updates = <<>> THEN [m EXCEPT !.ok = FALSE]
             ELSE set_multiple(m, updates, "remote")

\* Values and update bodies offered to the manager
ConfigValues == {IntValue(1), IntValue(5), IntValue(30), BoolValue(FALSE), BoolValue(TRUE)}
ConfigUpdates == {
    << <<"sample_interval_seconds", IntValue(30)>> >>,
    << <<"enable_verifier_sync", BoolValue(FALSE)>> >>,
    << <<"sample_interval_seconds", IntValue(1)>> >>,
    << <<"unknown_key", IntValue(5)>> >>,
    << <<"_version", IntValue(5)>>, <<"sample_interval_seconds", IntValue(12)>> >>,
    << <<"sample_interval_seconds", IntValue(5)>>, <<"enable_verifier_sync", IntValue(5)>> >> }
\* The signatures an update may arrive with: none, the operator's, another's
ConfigSignatures(config_data) ==
    {NoConfigSignature} \cup
    {Ed25519Prefixed(sign_hex([key |-> k], canonicalize_json(config_data))) :
        k \in {OperatorKey.key, "kB"}}

\* The manager after a call: what the call left in memory and on disk
CommitBatch(m, name, signature, data) ==
    /\ Len(applied.values) < MaxConfigChanges
    /\ _config' = m.config
    /\ _history' = m.history
    /\ history_file' = IF m.history # _history THEN LastN(m.history, HISTORY_KEEP)
                       ELSE history_file
    /\ applied' = [applied EXCEPT !.values = m.applied]
    /\ config_op' = [name |-> name, signature |-> signature, ok |-> m.ok,
                     changed |-> (m.config # _config \/ m.history # _history),
                     data |-> data,
                     before |-> IF data = <<>> THEN <<>> ELSE <<_config, Len(_history)>>]
    /\ UNCHANGED <<_trusted_public_key_hex, nonConfigVars>>

Commit(m, name, signature) == CommitBatch(m, name, signature, <<>>)

config_set ==
    \E key \in AllowedKeys \cup {"unknown_key"}, value \in ConfigValues :
        Commit(set(Manager, key, value, "api"), "set", NoConfigSignature)

config_reset_to_defaults ==
    Commit(ResetFrom(Manager, 1), "reset_to_defaults", NoConfigSignature)

config_apply_remote_config ==
    \E config_data \in ConfigUpdates :
        \E signature \in ConfigSignatures(config_data) :
            CommitBatch(apply_remote_config(Manager, config_data, signature),
                        "apply_remote_config", signature, config_data)

\* update_config without a signature: set_multiple(data, source="api")
config_set_multiple ==
    \E updates \in ConfigUpdates :
        CommitBatch(set_multiple(Manager, updates, "api"), "set_multiple",
                    NoConfigSignature, updates)

\* The process restarts: ConfigManager.__init__ -> _load_config, _load_history
config_restart ==
    /\ config_op.name # "restart"
    /\ _history' = LastN(history_file, HISTORY_KEEP)
    /\ applied' = [applied EXCEPT !.at_start = Len(applied.values)]
    /\ config_op' = [NoConfigOp EXCEPT !.name = "restart"]
    /\ UNCHANGED <<_config, history_file, _trusted_public_key_hex, nonConfigVars>>

\* ConfigManager.__init__ on an empty directory, without a trusted key
InitConfig ==
    /\ _config = DefaultConfig
    /\ _history = <<>>
    /\ history_file = <<>>
    /\ applied = [values |-> <<>>, at_start |-> 0]
    /\ config_op = NoConfigOp

(***************************************************************************)
(* Part VII: the fan targets and the command poller (src/app.py).          *)
(*                                                                         *)
(* A command value is [type, ...]: a JSON string, a JSON integer or null.  *)
(***************************************************************************)
\* FAN_PWM_PINS, in dict order
FAN_PWM_PINS == <<"Fan 1", "Fan 2", "Fan 3">>
FanNames == {FAN_PWM_PINS[i] : i \in DOMAIN FAN_PWM_PINS}
PWM_MIN == 0
PWM_MAX == 100

StrValue(s) == [type |-> "str", s |-> s]
NullValue == [type |-> "null"]
NoFanOp == [command |-> "none", value |-> NullValue, success |-> FALSE,
            before |-> [name \in FanNames |-> 0]]

\* int(value): the integer, or the exception raised
ParseInt(value) ==
    CASE value.type = "int" -> [raised |-> "none", int |-> value.v]
      [] value.type = "str" /\ value.s = "55" -> [raised |-> "none", int |-> 55]
      [] value.type = "str" -> [raised |-> "ValueError", int |-> 0]
      [] OTHER -> [raised |-> "TypeError", int |-> 0]

\* pwms[name].ChangeDutyCycle(dc) of RPi.GPIO raises ValueError unless
\* 0.0 <= dc <= 100.0
ChangeDutyCycleRaises(dc) == dc < PWM_MIN \/ dc > PWM_MAX

\* The loop "for name in FAN_PWM_PINS" from fan i on: the speeds it leaves
\* and whether it ran to its end
RECURSIVE SetAllFans(_, _, _, _)
SetAllFans(speeds, target_speed, i, on_pi) ==
    IF i > Len(FAN_PWM_PINS) THEN [speeds |-> speeds, success |-> TRUE]
    ELSE LET assigned == [speeds EXCEPT ![FAN_PWM_PINS[i]] = target_speed]
         IN  IF on_pi /\ ChangeDutyCycleRaises(target_speed)
             THEN [speeds |-> assigned, success |-> FALSE]
             ELSE SetAllFans(assigned, target_speed, i + 1, on_pi)

\* _handle_fan_command(value) as _execute_command sees it: the speeds it
\* leaves and the success it acknowledges (False after any exception)
_handle_fan_command(speeds, value, on_pi) ==
    IF value.type = "str" /\ value.s = "on" THEN SetAllFans(speeds, PWM_MAX, 1, on_pi)
    ELSE IF value.type = "str" /\ value.s = "off" THEN SetAllFans(speeds, PWM_MIN, 1, on_pi)
    ELSE LET parsed == ParseInt(value)
         IN  IF parsed.raised # "none" THEN [speeds |-> speeds, success |-> FALSE]
             ELSE SetAllFans(speeds, parsed.int, 1, on_pi)

\* The commands the backend may hand out
FanValues ==
    {StrValue(s) : s \in {"on", "off", "fast", "55"}}
        \cup {IntValue(n) : n \in {0 - 1, 0, 40, 100, 150}} \cup {NullValue}
Commands ==
    [command : {"fan", "set_speed"}, value : FanValues]
        \cup [command : {"check_update", "reboot"}, value : {NullValue}]

\* _execute_command(cmd) with its acknowledgement
_execute_command ==
    \E cmd \in Commands :
        LET done == IF cmd.command \in {"fan", "set_speed"}
                    THEN _handle_fan_command(current_speeds, cmd.value, RUNNING_ON_PI)
                    ELSE [speeds |-> current_speeds, success |-> cmd.command = "check_update"]
        IN  /\ current_speeds' = done.speeds
            /\ fan_op' = [command |-> cmd.command, value |-> cmd.value,
                          success |-> done.success, before |-> current_speeds]
            /\ UNCHANGED <<RUNNING_ON_PI, nonFanVars>>

\* app.py at import: every fan at 0
InitFan ==
    /\ current_speeds = [name \in FanNames |-> 0]
    /\ fan_op = NoFanOp

\* TelemetryCollector.__init__: nothing stored, nothing delivered
InitLoop ==
    /\ raw_json = <<>>
    /\ delivered = <<>>
    /\ orch = OrchInit
    /\ steps = <<>>
    /\ stale = NoThread
    /\ restarts = 0

InitServices ==
    /\ InitConfig
    /\ _trusted_public_key_hex = NoKey
    /\ InitFan
    /\ RUNNING_ON_PI = FALSE
    /\ InitDetector
    /\ InitLoop
    /\ sensors = "sound"

\* IssuanceCalculator.__init__
InitIssuance ==
    /\ _team_tokens_issued = 0
    /\ team_paid = 0
    /\ issuance = NoIssuance
    /\ issuance_calls = 0

InitPipeline ==
    /\ InitServices
    /\ InitCollector
    /\ enable_signing = TRUE
    /\ InitCrypto
    /\ subject = Plain(<<>>)
    /\ InitIssuance

InitUplink ==
    /\ pending_samples = <<>>
    /\ pending_epochs = <<>>
    /\ verifications = <<>>
    /\ sample_seq = 0
    /\ epoch_seq = 0
    /\ status = StatusInit
    /\ sync = [w \in SyncWorkers |-> SyncIdle]
    /\ accepted_samples = <<>>
    /\ accepted_epochs = <<>>
    /\ samples_handed = 0
    /\ epoch_ver = [e \in EpochIds |-> 0]
    /\ op = OtherOp

\* The uplink after construction, talking to a verifier that may answer anything.
Init ==
    /\ InitUplink
    /\ running = FALSE
    /\ net = "flaky"
    /\ InitStore
    /\ InitPipeline

Next ==
    \/ send_sample
    \/ send_epoch
    \/ get_status
    \/ start
    \/ stop
    \/ _sync_loop
    \/ _sync_pending_samples
    \/ _sync_pending_epochs
    \/ TimePasses

Spec == Init /\ [][Next]_vars

\* The uplink with no background sync (start() never called): immediate
\* sends against a verifier that may answer anything.
NextSend ==
    \/ send_sample
    \/ send_epoch
    \/ get_status
    \/ TimePasses

SpecSend == Init /\ [][NextSend]_vars

\* The uplink after start(), pointed at a verifier that is unreachable and
\* that becomes reachable for good at some point (answering 200 with a
\* verification result from then on); samples and epochs are handed over
\* while it is unreachable and the sync loop is never stopped.
InitRecover ==
    /\ InitUplink
    /\ running = TRUE
    /\ net = "down"
    /\ InitStore
    /\ InitPipeline

SyncLoopThread ==
    _sync_loop \/ _sync_pending_samples \/ _sync_pending_epochs

send_sample_offline ==
    net = "down" /\ send_sample

send_epoch_offline ==
    net = "down" /\ send_epoch

NextRecover ==
    \/ send_sample_offline
    \/ send_epoch_offline
    \/ get_status
    \/ _sync_loop
    \/ _sync_pending_samples
    \/ _sync_pending_epochs
    \/ TimePasses
    \/ Recover

SpecRecover ==
    InitRecover /\ [][NextRecover]_vars /\ WF_vars(SyncLoopThread) /\ WF_vars(TimePasses)

\* The same uplink with force_sync called while the sync loop runs, and with
\* send_sample and send_epoch called before and after the verifier comes up.
NextForce ==
    \/ send_sample
    \/ send_epoch
    \/ get_status
    \/ _sync_loop
    \/ _sync_pending_samples
    \/ _sync_pending_epochs
    \/ force_sync
    \/ force_sync_samples
    \/ force_sync_epochs
    \/ TimePasses
    \/ Recover

SpecForce == InitRecover /\ [][NextForce]_vars

\* The collector's store: one writer, readers on other threads.
InitStoreOnly ==
    /\ InitUplink
    /\ running = FALSE
    /\ net = "flaky"
    /\ InitStore
    /\ InitPipeline

NextStore ==
    \/ store_insert
    \/ store_cleanup
    \/ get_recent_samples

SpecStore == InitStoreOnly /\ [][NextStore]_vars

\* The uplink and the store at rest
InitRest ==
    /\ InitUplink
    /\ running = FALSE
    /\ net = "flaky"
    /\ InitStore

\* The key directory the collector finds when it is constructed: the one its
\* identity was generated into, intact or with a private key file that no
\* longer parses.
CollectorKeyDirs ==
    LET kd == [private |-> CollectorIdentity.key, public |-> CollectorIdentity.key,
               device_id |-> CollectorIdentity.device_id]
    IN  {kd, [kd EXCEPT !.private = Malformed]}

\* TelemetryCollector.__init__: self.enable_signing after the identity was
\* requested; an exception of get_device_identity switches signing off.
TelemetryCollector__init__(signing_arg, kd) ==
    IF signing_arg
    THEN IF kd.private # "none" /\ kd.public # "none" /\ LoadRaises(kd) THEN FALSE ELSE TRUE
    ELSE FALSE

\* The collector, with signing enabled or not, started and stopped once.
InitCollectorOnly ==
    /\ InitRest
    /\ InitCollector
    /\ InitServices
    /\ outcome = NoOutcome
    /\ identity = NoIdentity
    /\ key_dir \in CollectorKeyDirs
    /\ \E signing_arg \in BOOLEAN : enable_signing = TelemetryCollector__init__(signing_arg, key_dir)
    /\ subject = Plain(<<>>)
    /\ InitIssuance

NextCollector ==
    \/ collector_start
    \/ collect_sample
    \/ loop_exit
    \/ _check_epoch
    \/ _finalize_epoch
    \/ collector_stop

SpecCollector == InitCollectorOnly /\ [][NextCollector]_vars

\* The collector started, stopped and started again.
NextRestart ==
    \/ NextCollector
    \/ collector_restart
    \/ thread_switch

SpecRestart == InitCollectorOnly /\ [][NextRestart]_vars

\* Payloads signed, altered and verified under the identities that the key
\* directory yields over restarts.
InitCryptoOnly ==
    /\ InitRest
    /\ InitServices
    /\ InitCollector
    /\ enable_signing = TRUE
    /\ InitCrypto
    /\ subject \in {Plain(payload) : payload \in Payloads}
    /\ InitIssuance

NextCrypto ==
    \/ _load_or_generate
    \/ Restart
    \/ ReplaceKeys
    \/ DamageKeyDir
    \/ NewPayload
    \/ sign_payload_step
    \/ Tamper
    \/ SubstitutePublicKey
    \/ verify_signature_step

SpecCrypto == InitCryptoOnly /\ [][NextCrypto]_vars

\* create_merkle_root applied to every list of up to MaxLeaves items
RawItems == {<< <<"raw", n>> >> : n \in 1..3}
ItemLists == UNION {[1..n -> RawItems] : n \in 0..MaxLeaves}

InitMerkle ==
    /\ InitRest
    /\ InitServices
    /\ InitCollector
    /\ enable_signing = TRUE
    /\ InitCrypto
    /\ subject \in {[stage |-> "items", doc |-> items, signer |-> "none"] :
                        items \in ItemLists}
    /\ InitIssuance

NextMerkle ==
    create_merkle_root_step

SpecMerkle == InitMerkle /\ [][NextMerkle]_vars

\* One calculator over a sequence of epochs, the caller handing in the team
\* total it tracked or not.
NextIssuance ==
    \/ calculate_epoch_issuance
    \/ set_team_tokens_issued

InitIssuanceOnly ==
    /\ InitRest
    /\ InitPipeline

SpecIssuance == InitIssuanceOnly /\ [][NextIssuance]_vars

\* The configuration manager with or without a trusted operator key, over
\* restarts of the process.
InitConfigOnly ==
    /\ InitRest
    /\ InitConfig
    /\ _trusted_public_key_hex \in {NoKey, public_key_hex(OperatorKey)}
    /\ InitFan
    /\ RUNNING_ON_PI = FALSE
    /\ InitDetector
    /\ InitLoop
    /\ sensors = "sound"
    /\ InitCollector
    /\ enable_signing = TRUE
    /\ InitCrypto
    /\ subject = Plain(<<>>)
    /\ InitIssuance

NextConfig ==
    \/ config_set
    \/ config_reset_to_defaults
    \/ config_apply_remote_config
    \/ config_set_multiple
    \/ config_restart

SpecConfig == InitConfigOnly /\ [][NextConfig]_vars

\* The running pipeline while the configuration is changed: the collection
\* loop ticks, samples and epochs are handed to the uplink of a reachable
\* verifier, and options are set through the manager.
InitControl ==
    /\ InitUplink
    /\ running = FALSE
    /\ net = "up"
    /\ InitStore
    /\ InitServices
    /\ InitCollector
    /\ enable_signing = FALSE
    /\ InitCrypto
    /\ subject = Plain(<<>>)
    /\ InitIssuance

NextControl ==
    \/ config_set
    \/ collector_start
    \/ collect_sample
    \/ _check_epoch
    \/ _finalize_epoch
    \/ send_sample
    \/ send_epoch

SpecControl == InitControl /\ [][NextControl]_vars

\* The command poller executing the commands the backend hands out, on a
\* Raspberry Pi or on a host without GPIO.
InitFanOnly ==
    /\ InitRest
    /\ InitConfig
    /\ _trusted_public_key_hex = NoKey
    /\ InitFan
    /\ RUNNING_ON_PI \in BOOLEAN
    /\ InitDetector
    /\ InitLoop
    /\ sensors = "sound"
    /\ InitCollector
    /\ enable_signing = TRUE
    /\ InitCrypto
    /\ subject = Plain(<<>>)
    /\ InitIssuance

NextFan ==
    _execute_command

SpecFan == InitFanOnly /\ [][NextFan]_vars

\* The collection loop with sensors that may read an impossible airflow;
\* stop() is not called.
InitTick ==
    /\ InitRest
    /\ InitConfig
    /\ _trusted_public_key_hex = NoKey
    /\ InitFan
    /\ RUNNING_ON_PI = FALSE
    /\ InitDetector
    /\ InitLoop
    /\ sensors \in {"sound", "faulty"}
    /\ InitCollector
    /\ enable_signing \in BOOLEAN
    /\ InitCrypto
    /\ subject = Plain(<<>>)
    /\ InitIssuance

NextTick ==
    \/ collector_start
    \/ collect_sample
    \/ _check_epoch
    \/ _finalize_epoch

SpecTick == InitTick /\ [][NextTick]_vars

\* The collection loop of the running application, statement by statement;
\* stop() is not called.
NextOrchestrator ==
    \/ collector_start
    \/ orch_read
    \/ orch_check
    \/ orch_sign
    \/ orch_store
    \/ orch_assemble
    \/ close_issuance
    \/ close_sign_epoch
    \/ close_persist
    \/ close_pack
    \/ close_forward
    \/ close_epoch_callback
    \/ close_reset
    \/ orch_notify

SpecOrchestrator == InitTick /\ [][NextOrchestrator]_vars

\* A freshly created detector fed samples by a caller.
InitDetectorOnly ==
    /\ InitRest
    /\ InitServices
    /\ InitCollector
    /\ enable_signing = TRUE
    /\ InitCrypto
    /\ subject = Plain(<<>>)
    /\ InitIssuance

NextDetector ==
    detector_check_sample

SpecDetector == InitDetectorOnly /\ [][NextDetector]_vars

(***************************************************************************)
(* Properties of the verifier uplink.                                      *)
(***************************************************************************)
SendOps == {"send_sample", "send_epoch"}
SyncPostOps == {"sync_post_sample", "sync_post_epoch"}

SamplePending(s) == \E i \in 1..Len(pending_samples) : pending_samples[i].payload = s
EpochPending(item) == \E i \in 1..Len(pending_epochs) : pending_epochs[i].payload = item
DistinctEpochsHanded == Cardinality({e \in EpochIds : epoch_ver[e] > 0})

\* C1: with the verifier unreachable for the whole run, after N send_sample
\* calls on a fresh uplink (N = 0 and N > MAX_BUFFERED_SAMPLES included)
\* get_status reports samples_pending = min(N, MAX_BUFFERED_SAMPLES) and
\* samples_sent_total = 0.
C1_OfflinePendingCount ==
    (net = "down" /\ op.name = "get_status") =>
        /\ status.samples_pending = Min(samples_handed, MAX_BUFFERED_SAMPLES)
        /\ status.samples_sent_total = 0

\* C1 witness: get_status after more than MAX_BUFFERED_SAMPLES offline sends.
C1_Witness ==
    /\ net = "down"
    /\ op.name = "get_status"
    /\ samples_handed > MAX_BUFFERED_SAMPLES
    /\ status.samples_pending = MAX_BUFFERED_SAMPLES

\* What C2 expects at the end: nothing pending, everything handed over sent.
Drained ==
    /\ pending_samples = <<>>
    /\ pending_epochs = <<>>
    /\ status.samples_pending = 0
    /\ status.epochs_pending = 0
    /\ status.samples_sent_total = samples_handed
    /\ status.epochs_sent_total = EpochsHanded

C3_FifoDelivery ==
    /\ \A i, j \in 1..Len(accepted_samples) :
         i < j => accepted_samples[i] < accepted_samples[j]
    /\ \A i, j \in 1..Len(accepted_epochs) :
         (i < j /\ accepted_epochs[i][2] = 1 /\ accepted_epochs[j][2] = 1)
            => accepted_epochs[i][1] < accepted_epochs[j][1]

\* C4: the pending-epoch queue never holds more than MAX_BUFFERED_EPOCHS
\* epochs (the oldest is dropped when a new distinct epoch arrives at the cap).
C4_EpochCap ==
    Len(pending_epochs) <= MAX_BUFFERED_EPOCHS

\* C5: a sample or epoch POST answered with any status in 200..299, whatever
\* the body, leaves the item out of the pending queue; any other outcome
\* leaves it buffered.
C5_Any2xxAccepted ==
    /\ op.name = "send_sample" => (Is2xx(op.code) <=> ~SamplePending(op.item[1]))
    /\ op.name = "send_epoch" => (Is2xx(op.code) <=> ~EpochPending(op.item))

\* C6 as stated: send_sample and send_epoch attempt an immediate POST only
\* when connection_state is Connected.
C6_PostOnlyWhenConnected ==
    (op.name \in SendOps /\ op.posted) => op.pre = "connected"

\* C6 as amended: send_sample and send_epoch attempt an immediate POST in
\* every connection state, and the item goes to the offline buffer only after
\* that POST has failed (for a sample: exactly when the answer is not 200/201).
C6_PostInEveryState ==
    /\ op.name \in SendOps => op.posted
    /\ op.name = "send_sample" => (SamplePending(op.item[1]) <=> op.code \notin {200, 201})
    /\ op.name = "send_epoch" => (EpochPending(op.item) => op.posted)

\* C6 witness: a send_sample begun in state Error whose POST was made and accepted.
C6_Witness ==
    /\ op.name = "send_sample"
    /\ op.pre = "error"
    /\ op.posted
    /\ op.code = 200
    /\ ~SamplePending(op.item[1])
    /\ status.connection_state = "connected"

\* C7: within one sync cycle no POST of either kind is attempted after the
\* first failed POST.
C7_CycleStopsOnFirstFailure ==
    op.name \in SyncPostOps => ~op.after_failure

\* C8: once stop() has raised the stop signal the sync loop starts no new
\* POST (at most the POST in flight at that moment completes).
C8_NoPostAfterStop ==
    op.name \in SyncPostOps => ~op.after_stop

\* C9: enqueueing the same epoch_id again while offline leaves exactly one
\* pending row for that epoch_id, holding the later payload, and get_status
\* reports epochs_pending as the number of distinct epoch_ids (1 for one epoch).
C9_EpochUpsert ==
    /\ \A i, j \in 1..Len(pending_epochs) :
         i # j => pending_epochs[i].epoch_id # pending_epochs[j].epoch_id
    /\ net = "down" =>
         \A e \in EpochIds : epoch_ver[e] > 0 => EpochPending(<<e, epoch_ver[e]>>)
    /\ (net = "down" /\ op.name = "get_status") =>
         status.epochs_pending = DistinctEpochsHanded

\* C9 witness: one epoch_id enqueued twice offline, then get_status.
C9_Witness ==
    /\ net = "down"
    /\ epoch_ver[1] = 2
    /\ DistinctEpochsHanded = 1
    /\ op.name = "get_status"
    /\ status.epochs_pending = 1
    /\ Len(pending_epochs) = 1
    /\ pending_epochs[1].payload = <<1, 2>>

(***************************************************************************)
(* Properties of the durable sample store.                                 *)
(***************************************************************************)
\* C10: in every state a reader on another thread can observe, the samples
\* table holds at most TELEMETRY_BUFFER_SIZE rows (and so does what
\* get_recent_samples returns).
C10_StoreBounded ==
    /\ Len(samples) <= TELEMETRY_BUFFER_SIZE
    /\ Len(recent) <= TELEMETRY_BUFFER_SIZE

(***************************************************************************)
(* Properties of the collection loop and the epoch assembler.              *)
(***************************************************************************)
\* the samples that _check_epoch has appended to an epoch buffer so far
Appended == 1..(IF tick.pc = "check_epoch" THEN ticks - 1 ELSE ticks)
SealedWith(k) == {i \in DOMAIN sealed : k \in sealed[i].samples}

\* C11: once the collector's stop() has returned, every sample appended to
\* an epoch buffer belongs to exactly one sealed epoch (none is left in, or
\* later appended to, a buffer that is never sealed).
C11_StopSealsEverySample ==
    stopper.pc = "returned" =>
        \A k \in Appended : Cardinality(SealedWith(k)) = 1

\* C12: with one-minute epochs and samples 12 s apart, once 5 ticks are
\* complete exactly one epoch has been opened and closed, holding 5 samples
\* (and 5 leaf hashes when it is signed).
C12_FiveTicksCloseOneEpoch ==
    (ticks = 5 /\ tick.pc = "idle" /\ stopper.pc = "none") =>
        /\ Len(sealed) = 1
        /\ sealed[1].samples = 1..5
        /\ Get(sealed[1].doc, "sample_count") = 5
        /\ enable_signing => Len(Get(sealed[1].doc, "leaf_hashes")) = 5

\* C13: every persisted epoch carries leaf_hashes, as many as its
\* sample_count, whether or not it was signed.
C13_LeafHashesMatchCount ==
    \A i \in DOMAIN epochs :
        /\ Has(epochs[i], "leaf_hashes")
        /\ Len(Get(epochs[i], "leaf_hashes")) = Get(epochs[i], "sample_count")

\* C14: every signed epoch in the epochs table verifies as stored: the
\* canonical hash of the document without its envelope equals
\* _signing.epoch_hash and the signature over it verifies.
C14_StoredEpochVerifies ==
    \A i \in DOMAIN epochs :
        Has(epochs[i], "_signing") =>
            /\ hash_hex(canonicalize_json(Strip(epochs[i], SigningKeys)))
                   = Get(epochs[i], "_signing").epoch_hash
            /\ verify_epoch(epochs[i], CollectorIdentity).ok

C14_Witness ==
    \E i \in DOMAIN epochs :
        /\ Has(epochs[i], "_signing")
        /\ Has(epochs[i], "issuance")
        /\ Has(epochs[i], "summary")
        /\ Get(epochs[i], "sample_count") > 1

(***************************************************************************)
(* Properties of the Merkle tree, of signing and of the device identity.   *)
(***************************************************************************)
\* The pairing rule: the next level pairs adjacent nodes left to right and
\* duplicates the last node of an odd level.
RuleNextLevel(level) ==
    [k \in 1..((Len(level) + 1) \div 2) |->
        hash_data(level[2 * k - 1]
                  \o (IF 2 * k <= Len(level) THEN level[2 * k] ELSE level[2 * k - 1]))]
RECURSIVE RuleRoot(_)
RuleRoot(level) == IF Len(level) = 1 THEN level[1] ELSE RuleRoot(RuleNextLevel(level))
Leaf(i) == hash_data(subject.doc[i])
Sha(left, right) == hash_data(left \o right)

\* C15: the Merkle root follows the pairing rule for every list length:
\* sha256("") for no leaves, the leaf itself for one, and sha256(left ||
\* right) over adjacent nodes with the last node of an odd level duplicated.
C15_MerkleRule ==
    (subject.stage = "items" /\ outcome.kind = "merkle") =>
        LET n == Len(subject.doc)
        IN  /\ Len(outcome.leaf_hashes) = n
            /\ \A i \in 1..n : outcome.leaf_hashes[i] = Hex(Leaf(i))
            /\ n = 0 => outcome.root = Hex(hash_data(<<>>))
            /\ n = 1 => outcome.root = Hex(Leaf(1))
            /\ n = 2 => outcome.root = Hex(Sha(Leaf(1), Leaf(2)))
            /\ n = 3 => outcome.root =
                   Hex(Sha(Sha(Leaf(1), Leaf(2)), Sha(Leaf(3), Leaf(3))))
            /\ n = 4 => outcome.root =
                   Hex(Sha(Sha(Leaf(1), Leaf(2)), Sha(Leaf(3), Leaf(4))))
            /\ n > 0 => outcome.root = Hex(RuleRoot([i \in 1..n |-> Leaf(i)]))

C15_Witness ==
    /\ subject.stage = "items"
    /\ outcome.kind = "merkle"
    /\ Len(subject.doc) = 5
    /\ subject.doc[1] # subject.doc[2]

\* C16: a payload signed and verified under the same identity verifies, and
\* after any field outside the envelope has changed verification fails with
\* the hash-mismatch reason.
C16_SignVerifyAndTamper ==
    outcome.kind = "verify" =>
        /\ (subject.stage = "signed" /\ outcome.verifier = subject.signer) =>
               (outcome.ok /\ outcome.msg = SignatureValid)
        /\ subject.stage = "tampered" =>
               (~outcome.ok /\ outcome.msg = HashMismatch)

C16_Witness ==
    /\ outcome.kind = "verify"
    /\ subject.stage = "tampered"
    /\ outcome.verifier = subject.signer
    /\ Get(subject.doc, "fan_cfm") = 251

\* C17: verification of an unaltered signed sample is decided by the public
\* key its envelope carries: it returns true exactly when the signature was
\* produced by that key, whichever identity is loaded locally.
C17_VerifiedUnderEnvelopeKey ==
    (outcome.kind = "verify" /\ subject.stage \in {"signed", "relabelled"}) =>
        (outcome.ok <=>
            Get(subject.doc, "_signing").public_key
                = Ed25519Prefixed(public_key_hex([key |-> subject.signer])))

\* C21: a start of the process never replaces an existing private key file
\* and never generates a keypair when one exists, whatever the state of the
\* public key file and of identity.json.
C21_PrivateKeyNeverRewritten ==
    [][(identity = NoIdentity /\ identity' # NoIdentity /\ key_dir.private # "none")
          => (key_dir'.private = key_dir.private /\ identity'.key = key_dir.private)]_vars

\* C22: when the key files exist but the private key cannot be parsed, the
\* collector collects, stores and seals nothing.
C22_IdentityFailureIsFatal ==
    (key_dir.private # "none" /\ key_dir.public # "none" /\ LoadRaises(key_dir)) =>
        (ticks = 0 /\ _current_epoch_samples = <<>> /\ epochs = <<>>)

\* C20: every identity that initialised successfully has the device_id
\* derived from its public key.
C20_DeviceIdDerived ==
    identity # NoIdentity => identity.device_id = _generate_device_id(identity.key)

(***************************************************************************)
(* Properties of the issuance calculator.                                  *)
(***************************************************************************)
\* C18: the team shares of all epochs of one calculator together never
\* exceed the team cap.
C18_TeamCapHolds ==
    team_paid <= TEAM_EMISSION_CAP_BTFI

\* C19: the four shares of an issuance result, as published to 6 decimal
\* places, add up to its tokens_issued to 6 decimal places.
C19_SplitSumsToIssued ==
    issuance.kind = "split" =>
        LET published == to_dict(issuance)
        IN  published.to_facilities + published.to_verifiers
                + published.to_treasury + published.to_team
            = published.total_tokens

(***************************************************************************)
(* Properties of the configuration manager.                                *)
(***************************************************************************)
\* C23: with a trusted operator key configured, apply_remote_config rejects
\* every update that carries no signature and changes neither the
\* configuration nor the history.
C23_UnsignedUpdateRejected ==
    (/\ config_op.name = "apply_remote_config"
     /\ _trusted_public_key_hex # NoKey
     /\ config_op.signature = NoConfigSignature) =>
        (~config_op.ok /\ ~config_op.changed)

NewValues(history) == [i \in DOMAIN history |-> history[i].new_value]

\* C24 as stated: the new values of the history, in recorded order, are the
\* values of all accepted changes in the order they were applied (no-op
\* updates left out), and a rejected set adds no record.
C24_HistoryIsEveryChange ==
    /\ NewValues(_history) = applied.values
    /\ (config_op.name = "set" /\ ~config_op.ok) => ~config_op.changed

\* C24 amended: the new values of the history are the most recent accepted
\* changes in the order they were applied (no-op updates left out), all of
\* those applied since the manager was constructed among them; a rejected
\* set adds no record.
C24_HistoryIsRecentChanges ==
    /\ NewValues(_history) = LastN(applied.values, Len(_history))
    /\ Len(_history) >= Len(applied.values) - applied.at_start
    /\ Len(_history) <= Len(applied.values)
    /\ (config_op.name = "set" /\ ~config_op.ok) => ~config_op.changed

C24_Witness ==
    /\ config_op.name = "set"
    /\ config_op.changed
    /\ applied.at_start > HISTORY_KEEP
    /\ Len(_history) = HISTORY_KEEP + 1

\* C25: an accepted change of a recognised option takes effect on the
\* running pipeline: the collection loop ticks at the configured
\* sample_interval_seconds, and while enable_verifier_sync is false no sample
\* and no epoch is POSTed.
C25_ConfigTakesEffect ==
    [][/\ (ticks' = ticks + 1 /\ ticks >= 1) =>
              Timestamp(ticks') - Timestamp(ticks) = _config["sample_interval_seconds"].v
       /\ ~(/\ _config["enable_verifier_sync"] = BoolValue(FALSE)
            /\ (samples_handed' # samples_handed \/ epoch_ver' # epoch_ver)
            /\ op'.posted)]_vars

(***************************************************************************)
(* Properties of the command poller.                                       *)
(***************************************************************************)
AllFansAt(v) == \A name \in FanNames : current_speeds[name] = v

\* C26: after any sequence of polled fan / set_speed commands every fan's
\* PWM target is an integer in 0..100: "on" sets all fans to 100, "off" sets
\* all to 0, an integer v in 0..100 sets all to v, and any other value is
\* acknowledged as failure and changes no fan's target.
C26_FanTargetsInRange ==
    /\ \A name \in FanNames : current_speeds[name] \in PWM_MIN..PWM_MAX
    /\ fan_op.command \in {"fan", "set_speed"} =>
          LET value == fan_op.value
              \* the integer the value denotes, written as a number or in digits
              v == ParseInt(value)
          IN  CASE value.type = "str" /\ value.s = "on" -> AllFansAt(PWM_MAX)
                [] value.type = "str" /\ value.s = "off" -> AllFansAt(PWM_MIN)
                [] v.raised = "none" /\ v.int \in PWM_MIN..PWM_MAX -> AllFansAt(v.int)
                [] OTHER -> ~fan_op.success /\ current_speeds = fan_op.before

(***************************************************************************)
(* Properties of the anomaly detector.                                     *)
(***************************************************************************)
\* the samples fed so far that carried the field
FedCarrying(field) == {i \in DOMAIN fed_samples : Has(fed_samples[i], FieldKey(field))}

\* C28: after any sequence of samples fed to a freshly created detector each
\* tracked field's baseline count equals the number of samples fed that
\* carried that field; samples that raised reports, Critical ones included,
\* are counted.
C28_BaselineCountsEverySample ==
    \A field \in TrackedFields : _baselines[field] = Cardinality(FedCarrying(field))

C28_Witness ==
    /\ Len(fed_samples) = 3
    /\ has_critical_anomalies(anomalies)
    /\ \E i \in DOMAIN anomalies : anomalies[i].anomaly_type = "impossible_value"
                                     /\ anomalies[i].field = "cfm"
    /\ _baselines["cfm"] = 3
    /\ _baselines["watts"] = 1

\* the Replay reports of the last call
ReplayReports == SelectSeq(anomalies, LAMBDA a : a.anomaly_type = "replay_attack")
\* the payload hashes fed from the i-th sample to the j-th
HashesFed(i, j) == {SampleHash(fed_samples[k]) : k \in i..j} \ {<<>>}
\* the place of the first sample fed with this payload hash, 0 if none
FirstFed(h) ==
    IF \E i \in 1..(Len(fed_samples) - 1) : SampleHash(fed_samples[i]) = h
    THEN CHOOSE i \in 1..(Len(fed_samples) - 1) :
            /\ SampleHash(fed_samples[i]) = h
            /\ \A j \in 1..(i - 1) : SampleHash(fed_samples[j]) # h
    ELSE 0

\* C30: feeding a signed sample A yields no Replay report, and feeding a
\* sample A' with the same payload_hash afterwards, before
\* RECENT_HASHES_MAXLEN other hashes have pushed the hash of A out of the
\* window, yields exactly one Replay report, of severity Critical.
C30_ReplayReportedOnce ==
    fed_samples # <<>> /\ SampleHash(fed_samples[Len(fed_samples)]) # <<>> =>
        LET n == Len(fed_samples)
            h == SampleHash(fed_samples[n])
            first == FirstFed(h)
        IN  /\ first = 0 => ReplayReports = <<>>
            /\ (first # 0
                    /\ Cardinality(HashesFed(first + 1, n - 1) \ {h}) < RECENT_HASHES_MAXLEN) =>
                  /\ Len(ReplayReports) = 1
                  /\ ReplayReports[1].severity = "critical"

C30_Witness ==
    /\ Len(fed_samples) = 3
    /\ SampleHash(fed_samples[1]) # <<>>
    /\ SampleHash(fed_samples[3]) = SampleHash(fed_samples[1])
    /\ SampleHash(fed_samples[2]) \notin {<<>>, SampleHash(fed_samples[1])}
    /\ fed_samples[3] # fed_samples[1]
    /\ Len(ReplayReports) = 1

(***************************************************************************)
(* Properties of the collection loop.                                      *)
(***************************************************************************)
\* the reading of the tick under way or just ended, with the summary of the
\* reports the detector returned for it
FlaggedReading ==
    Put(fed_samples[Len(fed_samples)], "_anomalies",
        [count |-> Len(anomalies), has_critical |-> TRUE,
         types |-> {anomalies[i].anomaly_type : i \in DOMAIN anomalies}])

\* the sample is the flagged reading, under a signature over all of it
SignedWithSummary(sample) ==
    /\ Strip(sample, SigningKeys) = FlaggedReading
    /\ enable_signing =>
          /\ Has(sample, "_signing")
          /\ Get(sample, "_signing").payload_hash = hash_hex(canonicalize_json(FlaggedReading))
          /\ verify_signature(sample, CollectorIdentity).ok

\* C27: a sample for which the detector emits Critical reports is not
\* dropped: in the same tick it is signed (when the collector signs), stored,
\* appended to the open epoch and handed to the callbacks, carrying the
\* summary (count, has_critical, types) under its signature.
C27_CriticalSampleKept ==
    (fed_samples # <<>> /\ has_critical_anomalies(anomalies)) =>
        /\ tick.pc = "check_epoch" =>
              /\ SignedWithSummary(tick.sample)
              /\ raw_json # <<>> /\ raw_json[Len(raw_json)] = tick.sample
        /\ tick.pc = "finalize" =>
              /\ _current_epoch_samples # <<>>
              /\ _current_epoch_samples[Len(_current_epoch_samples)] = tick.sample
        /\ tick.pc = "reset" =>
              /\ sealed # <<>>
              /\ SampleNo(tick.sample) \in sealed[Len(sealed)].samples
        /\ tick.pc = "idle" =>
              /\ delivered # <<>>
              /\ SignedWithSummary(delivered[Len(delivered)])
              /\ \/ /\ _current_epoch_samples # <<>>
                    /\ _current_epoch_samples[Len(_current_epoch_samples)]
                          = delivered[Len(delivered)]
                 \/ /\ sealed # <<>>
                    /\ SampleNo(delivered[Len(delivered)]) \in sealed[Len(sealed)].samples

C27_Witness ==
    /\ tick.pc = "idle"
    /\ enable_signing
    /\ Len(fed_samples) = 3
    /\ has_critical_anomalies(anomalies)
    /\ Len(delivered) = 3
    /\ Get(delivered[3], "_anomalies").has_critical
    /\ Get(delivered[3], "fan_cfm") < 0
    /\ ~Has(delivered[2], "_anomalies")

(***************************************************************************)
(* Properties of the evidence pack.                                        *)
(***************************************************************************)
\* the hash of a sample as the Merkle tree of the epoch takes it
SampleLeaf(sample) == hash_hex(canonicalize_json(Strip(sample, UnderscoreKeys)))

\* C29: for every evidence pack built from a signed epoch the hash of the
\* i-th sample contained in the pack equals the i-th entry of the pack's
\* leaf hashes, for every i.
C29_PackSamplesMatchLeaves ==
    \A e \in DOMAIN sealed :
        Has(sealed[e].doc, "_signing") =>
            /\ Len(sealed[e].pack.samples) = Len(sealed[e].pack.leaves)
            /\ \A i \in DOMAIN sealed[e].pack.samples :
                  SampleLeaf(sealed[e].pack.samples[i]) = sealed[e].pack.leaves[i]

(***************************************************************************)
(* Properties of batch configuration updates.                              *)
(***************************************************************************)
IsBatch == config_op.name \in {"set_multiple", "apply_remote_config"}
\* the pairs of the batch that reach set: apply_remote_config leaves out the
\* keys that are not configuration fields
BatchPairs ==
    IF config_op.name = "apply_remote_config"
    THEN SelectSeq(config_op.data, LAMBDA kv : kv[1] \in AllowedKeys)
    ELSE config_op.data
BatchFails(i) == ~validate_value(BatchPairs[i][1], BatchPairs[i][2])
\* the batch got past the signature check whatever the signature
BatchRan ==
    \/ config_op.name = "set_multiple"
    \/ /\ config_op.name = "apply_remote_config"
       /\ (config_op.signature = NoConfigSignature \/ _trusted_public_key_hex = NoKey)
\* the history records the batch added
BatchRecords == SubSeq(_history, config_op.before[2] + 1, Len(_history))

\* C40: a batch configuration update (set_multiple or apply_remote_config) is
\* all-or-nothing: if any key in the batch fails validation, no key of the
\* batch is changed and no history record is added.
C40_BatchAllOrNothing ==
    (IsBatch /\ \E i \in DOMAIN BatchPairs : BatchFails(i)) => ~config_op.changed

\* C40, amended: a batch is applied key by key.  A key that fails validation
\* is not changed and adds no history record, and the batch reports failure;
\* the keys of the batch that pass validation are set, each with a history
\* record if its value changed.
C40_BatchKeyByKey ==
    IsBatch =>
        /\ \A i \in DOMAIN BatchPairs :
              BatchFails(i) =>
                  /\ ~config_op.ok
                  /\ BatchPairs[i][1] \in AllowedKeys =>
                        _config[BatchPairs[i][1]] = config_op.before[1][BatchPairs[i][1]]
                  /\ \A r \in DOMAIN BatchRecords : BatchRecords[r].key # BatchPairs[i][1]
        /\ BatchRan =>
              \A i \in DOMAIN BatchPairs :
                  ~BatchFails(i) =>
                      LET key == BatchPairs[i][1]
                      IN  /\ PyEq(_config[key], BatchPairs[i][2])
                          /\ ~PyEq(config_op.before[1][key], BatchPairs[i][2]) =>
                                \E r \in DOMAIN BatchRecords :
                                    /\ BatchRecords[r].key = key
                                    /\ BatchRecords[r].new_value = BatchPairs[i][2]

C40_Witness ==
    /\ config_op.name = "set_multiple"
    /\ ~config_op.ok
    /\ config_op.changed
    /\ Len(BatchPairs) = 2
    /\ ~BatchFails(1)
    /\ BatchFails(2)
    /\ Len(BatchRecords) = 1

(***************************************************************************)
(* Properties of the timestamp check of the detector.                      *)
(***************************************************************************)
\* the greatest timestamp among the first n samples fed, -1 if there is none
Watermark(n) ==
    IF n = 0 THEN -1
    ELSE CHOOSE t \in {Get(fed_samples[i], "timestamp") : i \in 1..n} :
            \A i \in 1..n : Get(fed_samples[i], "timestamp") <= t
TimestampReports ==
    SelectSeq(anomalies, LAMBDA a : a.anomaly_type = "timestamp_violation")

\* C31: the detector emits a Critical timestamp-violation report exactly
\* when the sample's timestamp is less than or equal to the watermark, the
\* greatest timestamp of any sample fed before; a violating sample never
\* lowers the watermark.
C31_TimestampWatermark ==
    fed_samples # <<>> =>
        LET n == Len(fed_samples)
            current_ts == Get(fed_samples[n], "timestamp")
        IN  /\ _last_timestamp = Watermark(n)
            /\ IF n > 1 /\ current_ts <= Watermark(n - 1)
               THEN /\ Len(TimestampReports) = 1
                    /\ TimestampReports[1].severity = "critical"
               ELSE TimestampReports = <<>>

\* a sample at the watermark, fed after a violating one, is reported
C31_Witness ==
    /\ Len(fed_samples) = 4
    /\ Get(fed_samples[1], "timestamp") = 0
    /\ Get(fed_samples[2], "timestamp") = 12
    /\ Get(fed_samples[3], "timestamp") = 0
    /\ Get(fed_samples[4], "timestamp") = 12
    /\ Len(TimestampReports) = 1
    /\ _last_timestamp = 12

(***************************************************************************)
(* Properties of the flatline check of the detector.                       *)
(***************************************************************************)
\* the samples fed that carried the field, in the order fed
Carrying(field) == SelectSeq(fed_samples, LAMBDA sample : Has(sample, FieldKey(field)))
\* the last n samples that carried the field all read the same value
RunOf(field, n) ==
    LET fed == Carrying(field)
    IN  /\ Len(fed) >= n
        /\ \A i \in (Len(fed) - n + 1)..Len(fed) :
              Get(fed[i], FieldKey(field)) = Get(fed[Len(fed)], FieldKey(field))
FlatlineReports(field) ==
    SelectSeq(anomalies, LAMBDA a : a.anomaly_type = "flatline" /\ a.field = field)

\* C36: a Flatline warning is emitted for a field exactly when the current
\* sample completes a run of at least FLATLINE_THRESHOLD consecutive samples
\* (the current one included) whose values are identical.
C36_FlatlineAtThreshold ==
    fed_samples # <<>> =>
        \A field \in TrackedFields :
            Has(fed_samples[Len(fed_samples)], FieldKey(field)) =>
                (FlatlineReports(field) # <<>> <=> RunOf(field, FLATLINE_THRESHOLD))

(***************************************************************************)
(* Properties of the retry schedule of the uplink.                         *)
(***************************************************************************)
\* C35: on each failed POST the state becomes Error and the next retry is
\* scheduled min(MAX_BACKOFF_SECONDS, INITIAL_BACKOFF_SECONDS * 2^k) ahead,
\* k being the number of consecutive failures before this one: the first
\* failure schedules the initial delay.
C35_BackoffFromInitialDelay ==
    [][status'.retry_count = status.retry_count + 1 =>
          /\ status'.connection_state = "error"
          /\ status'.next_retry =
                Min(MAX_BACKOFF_SECONDS,
                    INITIAL_BACKOFF_SECONDS * Pow(BACKOFF_MULTIPLIER, status.retry_count))]_vars

(***************************************************************************)
(* The order of the steps within one iteration of the collection loop.     *)
(***************************************************************************)
StepNames == {steps[i].step : i \in 1..Len(steps)}
\* the place of a step in a chain of steps, 0 if the chain does not name it
Rank(chain, step) ==
    IF \E k \in 1..Len(chain) : chain[k] = step
    THEN CHOOSE k \in 1..Len(chain) : chain[k] = step
    ELSE 0
\* the steps taken so far that the chain names were taken in the chain's order
InOrder(chain) ==
    \A i, j \in 1..Len(steps) :
        (i < j /\ Rank(chain, steps[i].step) > 0 /\ Rank(chain, steps[j].step) > 0)
            => Rank(chain, steps[i].step) <= Rank(chain, steps[j].step)
\* the iteration under way has run its last statement
IterationDone == orch.pc = "read" /\ steps # <<>>
\* the iteration under way has closed an epoch
EpochClosed == "reset" \in StepNames
TimesStepped(step) == Cardinality({i \in 1..Len(steps) : steps[i].step = step})

\* C32: within one iteration the steps are taken in the order read, check,
\* sign, store, assemble, then (if the epoch closes) pack, upload and epoch
\* submission, then sample submission; a finished iteration has taken all of
\* them, so the sample is stored before it is submitted and the epoch it
\* closes is submitted before it.
C32_TickOrder ==
    /\ InOrder(<<"read", "check", "sign", "store", "assemble",
                 "pack", "upload", "send_epoch", "send_sample">>)
    /\ IterationDone =>
          /\ {"read", "check", "sign", "store", "assemble", "send_sample"} \subseteq StepNames
          /\ EpochClosed => {"pack", "upload", "send_epoch"} \subseteq StepNames
    /\ "send_sample" \in StepNames => InSeq(orch.sample, raw_json)
C32_Witness ==
    /\ IterationDone
    /\ EpochClosed
    /\ steps[Len(steps)].step = "send_sample"

C34_OneSendEpochPerClose ==
    /\ TimesStepped("send_epoch") <= 1
    /\ EpochClosed => TimesStepped("send_epoch") = 1

(***************************************************************************)
(* The collector started again after a stop.                               *)
(***************************************************************************)
\* a loop thread between reading a sample and the end of the iteration
InIteration(thread) == thread.pc \in {"check_epoch", "finalize", "reset"}

\* C37: whatever start() and stop() calls were made, two loop threads are
\* never inside an iteration of the collection loop at the same time.
C37_OneLoopThread == ~(InIteration(tick) /\ InIteration(stale))

\* the sets of samples that were sealed as an epoch
SealedSets == {sealed[i].samples : i \in DOMAIN sealed}
\* C39: two sealed epochs of different samples have different epoch_ids, and
\* the durable store holds a row for each of them.
C39_EpochIdsUnique ==
    /\ \A i, j \in DOMAIN sealed :
          sealed[i].samples # sealed[j].samples
              => Get(sealed[i].doc, "epoch_id") # Get(sealed[j].doc, "epoch_id")
    /\ Len(epochs) >= Cardinality(SealedSets)

(***************************************************************************)
(* force_sync beside the sync loop.                                        *)
(***************************************************************************)
\* C38: the verifier answers 200 once per item: each sent_total equals the
\* number of different items the verifier has accepted, whatever the
\* interleaving of the sync loop, force_sync, send_sample and send_epoch.
C38_DeliveredOnce ==
    /\ status.samples_sent_total = Len(accepted_samples)
    /\ status.epochs_sent_total = Len(accepted_epochs)
====
